---------------------------- MODULE Spec2Model ----------------------------
(***************************************************************************)
(* A model of the Central Limit Theorem applets of xbar-apps.              *)
(*                                                                         *)
(*   - the animated engine (class Engine of src/unnamed/part_001, repeated *)
(*     as StatEngine in src/unnamed/part_002) with the page's handlers,    *)
(*     timers and animation loop (part_001, mount);                        *)
(*   - the modular engine (src/shared/modules/stat-engine.js) driven by    *)
(*     CLTApp (src/shared/modules/clt-app.js).                             *)
(*                                                                         *)
(* Numbers.  A 32-bit unsigned integer is a pair <<hi, lo>> of 16-bit      *)
(* halves, because the checker's integers are 32-bit signed.  A sample     *)
(* value is always a bin midpoint (c + 0.5) / cols, so a sample is kept as *)
(* the sequence of its bins and a statistic as an exact fraction           *)
(* <<numerator, denominator>>.  Times are milliseconds.  A length is kept  *)
(* in units of 1/5000 px and a velocity in units of 0.2 px/s, which makes  *)
(* "vy += g * dt; y += vy * dt" exact on integers for dt in milliseconds.  *)
(***************************************************************************)
EXTENDS Integers, Sequences, FiniteSets, TLC

(***************************************************************************)
(* Bounds of the model.                                                    *)
(***************************************************************************)
\* number of population / sample-tray bins (config.cols, COLS)
Cols == 4
\* number of sampling-distribution bins (config.statBins, STAT_BINS)
StatBins == 4

(***************************************************************************)
(* 32-bit unsigned arithmetic on pairs <<hi, lo>>.                         *)
(***************************************************************************)
W16 == 256 * 256

RECURSIVE XorBits(_, _, _)
\* a ^ b for a, b of n bits, bit by bit
XorBits(a, b, n) ==
    IF n = 0 THEN 0
    ELSE (((a % 2) + (b % 2)) % 2) + 2 * XorBits(a \div 2, b \div 2, n - 1)

RECURSIVE OrBits(_, _, _)
\* a | b for a, b of n bits, bit by bit
OrBits(a, b, n) ==
    IF n = 0 THEN 0
    ELSE (IF a % 2 = 1 \/ b % 2 = 1 THEN 1 ELSE 0) + 2 * OrBits(a \div 2, b \div 2, n - 1)

\* the two operations on hexadecimal digits, as tables
XorDigit == [a \in 0 .. 15 |-> [b \in 0 .. 15 |-> XorBits(a, b, 4)]]
OrDigit == [a \in 0 .. 15 |-> [b \in 0 .. 15 |-> OrBits(a, b, 4)]]

RECURSIVE Xor16(_, _, _)
\* a ^ b for a, b of n bits (n a multiple of 4), digit by digit
Xor16(a, b, n) ==
    IF n = 0 THEN 0
    ELSE XorDigit[a % 16][b % 16] + 16 * Xor16(a \div 16, b \div 16, n - 4)

RECURSIVE Or16(_, _, _)
\* a | b for a, b of n bits (n a multiple of 4), digit by digit
Or16(a, b, n) ==
    IF n = 0 THEN 0
    ELSE OrDigit[a % 16][b % 16] + 16 * Or16(a \div 16, b \div 16, n - 4)

\* 2^k for k in 0 .. 16
Pow2(k) ==
    <<1, 2, 4, 8, 16, 32, 64, 128, 256, 512, 1024, 2048, 4096, 8192, 16384, 32768,
      65536>>[k + 1]

\* seed >>> 0 for an integer seed (negative seeds wrap, two's complement)
ToU32(seed) ==
    IF seed >= 0 THEN <<(seed \div W16) % W16, seed % W16>>
    ELSE <<(W16 - 1) - ((((-seed) - 1) \div W16) % W16), (W16 - 1) - (((-seed) - 1) % W16)>>

Add32(a, b) ==
    LET lo == a[2] + b[2]
    IN  <<(a[1] + b[1] + (lo \div W16)) % W16, lo % W16>>

Xor32(a, b) == <<Xor16(a[1], b[1], 16), Xor16(a[2], b[2], 16)>>

\* a | k for a constant k < 2^16
OrSmall32(a, k) == <<a[1], Or16(a[2], k, 16)>>

\* a >>> k for 0 < k < 16
Shr32(a, k) ==
    <<a[1] \div Pow2(k), (a[2] \div Pow2(k)) + ((a[1] % Pow2(k)) * Pow2(16 - k))>>

\* (x * y) mod 2^16 and floor(x * y / 2^16) for 16-bit x, y, without overflow
MulLo16(x, y) == ((x * (y % 256)) + (((x * (y \div 256)) % 256) * 256)) % W16
MulHi16(x, y) ==
    (((x * (y % 256)) + (((x * (y \div 256)) % 256) * 256)) \div W16) + ((x * (y \div 256)) \div 256)

\* Math.imul(a, b): the low 32 bits of the product
Imul32(a, b) ==
    <<(MulHi16(a[2], b[2]) + MulLo16(a[1], b[2]) + MulLo16(a[2], b[1])) % W16,
      MulLo16(a[2], b[2])>>

(***************************************************************************)
(* The deterministic RNG (mulberry32).  The stream's state is the closure  *)
(* variable t; a call adds the increment and mixes.  rngMulberry32(seed)   *)
(* is the state of a fresh stream.  (The code lets t grow as a double; it  *)
(* is read modulo 2^32 by every bit operation, so keeping it modulo 2^32   *)
(* is the same stream for the first 2^53 / 0x6D2B79F5 calls.)              *)
(***************************************************************************)
RngIncrement == <<27947, 31221>>    \* 0x6D2B79F5

rngMulberry32(seed) == ToU32(seed)

\* t += 0x6D2B79F5
rngStep(t) == Add32(t, RngIncrement)

\* the 32-bit integer a call returns (before the division by 2^32), for the
\* state t the call has just stepped to
rngMix(t) ==
    CHOOSE r3 \in
        {Xor32(r2, Shr32(r2, 14)) :
            r2 \in {Xor32(r1, Add32(r1, Imul32(Xor32(r1, Shr32(r1, 7)), OrSmall32(r1, 61)))) :
                       r1 \in {Imul32(Xor32(t, Shr32(t, 15)), OrSmall32(t, 1))}}} : TRUE

\* floor(rng() * m) for the call's integer u and 0 < m < 2^15
ScaleFloor(u, m) == ((u[1] * m) + ((u[2] * m) \div W16)) \div W16

\* rng() * m <= acc, exactly (u / 2^32 and its product with m are exact doubles)
ScaleLeq(u, m, acc) ==
    LET q == (u[1] * m) + ((u[2] * m) \div W16)
    IN  \/ (q \div W16) < acc
        \/ (q \div W16) = acc /\ (q % W16) = 0 /\ ((u[2] * m) % W16) = 0


(***************************************************************************)
(* Small helpers.                                                          *)
(***************************************************************************)
\* clamp(x, a, b) = Math.max(a, Math.min(b, x))
clamp(x, a, b) == IF (IF x < b THEN x ELSE b) > a THEN (IF x < b THEN x ELSE b) ELSE a

Min2(a, b) == IF a < b THEN a ELSE b

ColIdx == 0 .. (Cols - 1)
BinIdx == 0 .. (StatBins - 1)

ZeroCols == [c \in ColIdx |-> 0]
ZeroBins == [b \in BinIdx |-> 0]

RECURSIVE SumTo(_, _)
\* f[0] + ... + f[k]
SumTo(f, k) == IF k < 0 THEN 0 ELSE f[k] + SumTo(f, k - 1)

SumCols(f) == SumTo(f, Cols - 1)
SumBins(f) == SumTo(f, StatBins - 1)

\* arr.reduce((m, v) => (v > m ? v : m), 0) over f[0..k]
MaxTo(f, k) ==
    LET vs == {0} \cup {f[i] : i \in 0 .. k}
    IN  CHOOSE m \in vs : \A v \in vs : v <= m

\* number of elements of the sequence s that satisfy Test
CountSeq(s, Test(_)) == Cardinality({i \in 1 .. Len(s) : Test(s[i])})

(***************************************************************************)
(* Population generators.  The shapes are exp/log formulas evaluated at    *)
(* the bin centres, Math.max(0, Math.round(w * 20)); the table holds their *)
(* values for 2 to 7 bins.                                                 *)
(***************************************************************************)
GeneratorNames == {"normal", "uniform", "bimodal", "lognormal"}

GeneratorTable ==
    [normal |->
        [k \in 2 .. 7 |-> CASE k = 2 -> <<6, 6>>
                            [] k = 3 -> <<2, 20, 2>>
                            [] k = 4 -> <<1, 15, 15, 1>>
                            [] k = 5 -> <<1, 9, 20, 9, 1>>
                            [] k = 6 -> <<1, 6, 17, 17, 6, 1>>
                            [] k = 7 -> <<1, 4, 13, 20, 13, 4, 1>>],
     uniform |->
        [k \in 2 .. 7 |-> [i \in 1 .. k |-> 20]],
     bimodal |->
        [k \in 2 .. 7 |-> CASE k = 2 -> <<7, 8>>
                            [] k = 3 -> <<1, 0, 2>>
                            [] k = 4 -> <<0, 8, 4, 1>>
                            [] k = 5 -> <<0, 11, 0, 9, 0>>
                            [] k = 6 -> <<0, 7, 4, 1, 8, 0>>
                            [] k = 7 -> <<0, 4, 10, 0, 5, 6, 0>>],
     lognormal |->
        [k \in 2 .. 7 |-> CASE k = 2 -> <<76, 8>>
                            [] k = 3 -> <<74, 28, 6>>
                            [] k = 4 -> <<55, 50, 15, 5>>
                            [] k = 5 -> <<37, 67, 28, 11, 4>>
                            [] k = 6 -> <<25, 76, 41, 19, 8, 4>>
                            [] k = 7 -> <<16, 80, 54, 28, 14, 7, 4>>]]

\* Engine.applyGenerator(name): the new popCounts; a name that is none of the
\* four leaves w = 1 in every column, Math.round(1 * 20) = 20
applyGenerator(name) ==
    [c \in ColIdx |-> IF name \in GeneratorNames
                      THEN GeneratorTable[name][Cols][c + 1] ELSE 20]

(***************************************************************************)
(* Statistics.  A sample is the sequence of its bins; the value of bin c   *)
(* is (2c + 1) / (2 Cols).  A statistic is NaN or a fraction num / den, or *)
(* the square root of one (the standard deviation).                        *)
(***************************************************************************)
StatisticNames == {"mean", "median", "sd", "proportion"}

NaN == [kind |-> "NaN", num |-> 0, den |-> 1]
Frac(a, b) == [kind |-> "frac", num |-> a, den |-> b]
SqrtFrac(a, b) == [kind |-> "sqrt", num |-> a, den |-> b]

\* twice-Cols times the value of bin c
Val2(c) == 2 * c + 1

RECURSIVE SumVal2(_)
SumVal2(xs) == IF xs = <<>> THEN 0 ELSE Val2(Head(xs)) + SumVal2(Tail(xs))

\* mean(a): a.length ? sum / a.length : NaN
mean(xs) == IF Len(xs) = 0 THEN NaN ELSE Frac(SumVal2(xs), 2 * Cols * Len(xs))

\* a.slice().sort((x, y) => x - y)
RECURSIVE SortCols(_)
SortCols(xs) ==
    IF xs = <<>> THEN <<>>
    ELSE LET m == CHOOSE i \in 1 .. Len(xs) : \A j \in 1 .. Len(xs) : xs[i] <= xs[j]
         IN  <<xs[m]>> \o SortCols([i \in 1 .. (Len(xs) - 1) |-> IF i < m THEN xs[i] ELSE xs[i + 1]])

\* med(a)
med(xs) ==
    IF Len(xs) = 0 THEN NaN
    ELSE LET b == SortCols(xs)
             m == Len(b) \div 2
         IN  IF Len(b) % 2 = 1 THEN Frac(Val2(b[m + 1]), 2 * Cols)
             ELSE Frac(Val2(b[m]) + Val2(b[m + 1]), 4 * Cols)

RECURSIVE SumSqDev(_, _, _)
\* sum over the sample of (n * a_i - S)^2, a_i = Val2 of the i-th bin
SumSqDev(xs, n, S) ==
    IF xs = <<>> THEN 0
    ELSE (n * Val2(Head(xs)) - S) * (n * Val2(Head(xs)) - S) + SumSqDev(Tail(xs), n, S)

\* varianceUnbiased(a): NaN for n < 2, else s2 / (n - 1)
varianceUnbiased(xs) ==
    LET n == Len(xs)
    IN  IF n < 2 THEN NaN
        ELSE Frac(SumSqDev(xs, n, SumVal2(xs)), (2 * Cols * n) * (2 * Cols * n) * (n - 1))

\* robustSD(a): isFinite(v) && v >= 0 ? Math.sqrt(v) : 0
robustSD(xs) ==
    LET v == varianceUnbiased(xs)
    IN  IF v.kind # "NaN" /\ v.num >= 0 THEN SqrtFrac(v.num, v.den) ELSE Frac(0, 1)

\* v >= threshold for the value of bin c
AtOrAboveThreshold(c, th) == Val2(c) * th[2] >= th[1] * 2 * Cols

\* v > threshold for the value of bin c and the threshold th = <<num, den>>
AboveThreshold(c, th) == Val2(c) * th[2] > th[1] * 2 * Cols

\* Engine.computeStat(xs)
computeStat(xs, stat, th) ==
    IF Len(xs) = 0 THEN NaN
    ELSE IF stat = "mean" THEN mean(xs)
    ELSE IF stat = "median" THEN med(xs)
    ELSE IF stat = "sd" THEN robustSD(xs)
    ELSE IF stat = "proportion"
         THEN Frac(Cardinality({i \in 1 .. Len(xs) : AboveThreshold(xs[i], th)}), Len(xs))
    ELSE NaN

\* Engine.statDomain(): {min: 0, max: 0.5} for sd, {min: 0, max: 1} otherwise;
\* the value is twice the domain's max (its min is always 0)
statDomain(stat) == IF stat = "sd" THEN 1 ELSE 2

\* The bin of calculateWithGather and handleRepeatTurbo:
\*   x01 = clamp((val - min) / (max - min + 1e-9), 0, 1)
\*   bin = clamp(Math.floor(x01 * STAT_BINS), 0, STAT_BINS - 1)
\* The 1e-9 in the divisor moves a value that sits exactly on a bin boundary
\* into the bin below it.  NaN stays NaN (clamp and floor keep it).
resolveBin(val, stat) ==
    LET dom2 == statDomain(stat)
    IN  IF val.kind = "NaN" THEN -1
        ELSE IF val.kind = "frac"
        THEN LET n2 == 2 * val.num * StatBins
                 d2 == dom2 * val.den
                 q  == n2 \div d2
             IN  clamp(IF n2 % d2 = 0 /\ q > 0 THEN q - 1 ELSE q, 0, StatBins - 1)
        ELSE LET ks == {k \in 0 .. StatBins :
                          k = 0 \/ k * k * dom2 * dom2 * val.den < 4 * StatBins * StatBins * val.num}
             IN  clamp(CHOOSE k \in ks : \A j \in ks : j <= k, 0, StatBins - 1)

NoBin == -1

(***************************************************************************)
(* The sampler.                                                            *)
(***************************************************************************)
RECURSIVE FirstExceeding(_, _, _, _)
\* an inner loop that wants the cumulative weight to exceed the target
FirstExceeding(u, weights, total, c) ==
    IF c >= Cols THEN Cols \div 2
    ELSE IF ScaleFloor(u, total) < SumTo(weights, c) THEN c
    ELSE FirstExceeding(u, weights, total, c + 1)

RECURSIVE FirstReaching(_, _, _, _)
\* the weighted branch's inner loop from bin c on: the first bin whose
\* cumulative weight acc reaches the target, or COLS >> 1 when none does
FirstReaching(u, weights, total, c) ==
    IF c >= Cols THEN Cols \div 2
    ELSE IF ScaleLeq(u, total, SumTo(weights, c)) THEN c
    ELSE FirstReaching(u, weights, total, c + 1)

\* a sampler without the uniform branch
sampleOneWeighted(u, weights) == FirstExceeding(u, weights, SumCols(weights), 0)

\* the bin one call of the RNG selects
sampleOne(u, weights) ==
    LET total == SumCols(weights)
    IN  IF total = 0 THEN ScaleFloor(u, Cols) ELSE FirstReaching(u, weights, total, 0)

RECURSIVE sampleNSkipping(_, _, _)
\* a sampler that consumes two outputs of the stream for every element
sampleNSkipping(k, t, weights) ==
    IF k <= 0 THEN [cols |-> <<>>, rng |-> t]
    ELSE LET t1   == rngStep(rngStep(t))
             rest == sampleNSkipping(k - 1, t1, weights)
         IN  [cols |-> <<ScaleFloor(rngMix(t1), Cols)>> \o rest.cols, rng |-> rest.rng]

RECURSIVE sampleN(_, _, _)
\* Engine.sampleN(n): the bins drawn (the values are their midpoints) and the
\* state the stream is left in
sampleN(k, t, weights) ==
    IF k <= 0 THEN [cols |-> <<>>, rng |-> t]
    ELSE LET t1   == rngStep(t)
             rest == sampleN(k - 1, t1, weights)
         IN  [cols |-> <<sampleOne(rngMix(t1), weights)>> \o rest.cols, rng |-> rest.rng]


(***************************************************************************)
(* Geometry and timing of the animated engine.                             *)
(***************************************************************************)
\* units of length per pixel
Px == 50 * 100

marginY == 8
BOX == 8
\* layoutFromViewport: the trays are TOP_UNITS, MID_UNITS and BOT_UNITS boxes high
TOP_UNITS == 7
MID_UNITS == 7
BOT_UNITS == 7
H_TOP == TOP_UNITS * BOX
H_MID == MID_UNITS * BOX
H_BOT == BOT_UNITS * BOX

\* g of Engine.tick, px/s^2
gNormal == 1400
gFast == 2400
\* animate: dt = Math.min(0.06, ...), here in ms
DtCapMs == 60
\* setTimeout(() => startSample(n, dropMs), 100)
TimerDelay == 100
\* this.gatherDur = 260
GatherDurDefault == 260
\* popFlashes: until = now + 160
FlashMs == 160
\* the draw button: drawSampleWithAutoCalculate(n, 1200)
DropMs == 1200
\* clamp(popCounts[col] + 1, 0, 10000)
PopMax == 10000
\* validateSampleSize: 2 <= n <= 1000
MinSampleSize == 2
MaxSampleSize == 1000

\* bounds of the model: the largest sample size tried and the horizon of the
\* clock (ms)
MaxN == 3
MaxTime == 2000
\* the clock advances in steps of this many ms
TimeStep == 100

InitSeeds == {1234}
\* the seeds typed into the seed input
Seeds == {0, 7}
\* the calls made on a pair of engine instances, and the differences of their clocks (ms)
TwinCalls == 2
TwinSkews == {0, 300}
\* the count of a repeat (the page's button: 10)
RepeatCount == 3
\* runMultipleSamples: count >= 100 runs in bulk
BulkFrom == 100
InitStatistics == {"mean", "sd"}
Thresholds == {<<1, 2>>}

\* the iterations of the loop of handleRepeatTurbo (the code: 1000)
TurboIterations == 4

\* the width of the plot: the grid of Cols boxes and one box of margin on each side
plotW == (Cols + 2) * BOX
gridW == BOX * Cols
gridX0 == (plotW - gridW) \div 2

\* the populations, seeds and thresholds the sampler and the population model
\* are tried on: no weight at all, one value per bin, the generators' shapes, all
\* the weight in the last bin, the last bin at the largest weight; seeds whose first
\* output is 0, 1/4 and 3/4 exactly; a threshold that is a bin's midpoint
Populations ==
    {ZeroCols,
     [c \in ColIdx |-> 1],
     [c \in ColIdx |-> IF c = Cols - 1 THEN 2 ELSE 0],
     [c \in ColIdx |-> IF c = Cols - 1 THEN PopMax ELSE c]}
        \cup {[c \in ColIdx |-> GeneratorTable[g][Cols][c + 1]] : g \in GeneratorNames}
PopSeeds == {1234, 951241320, 485905563, -1831565813}
PopThresholds == {<<1, 2>>, <<3, 2 * Cols>>}
\* the calls made in a run on the population model and the sampler
PopCalls == 2
\* the runs of single frames: the clock's horizon (ms), the time by which the
\* last request is made, the clicks on x1000 and the frames that come without
\* the clock having moved
MaxTickTime == 3000
TickRequestBy == 900
TickTurbos == 3
StalledFrames == 1
\* the x10 button of the animated page: await new Promise(r => setTimeout(r, 200)),
\* drawSampleWithAutoCalculate(n, 600), engine.gatherDur = 180
LoopDelay == 200
RepeatDropMs == 600
RepeatGatherDur == 180
\* the runs of the x10 button: the clicks on it, the time by which the last
\* one is made, and the clock's horizon (ms)
RepeatRuns == 2
RepeatClickBy == 500
MaxRepeatTime == 2400
\* the seeds handed to the constructor of the modular engine: 0, the default,
\* 2^31 - 1, and seeds whose first output is on a bin boundary
ConstructorSeeds == {0, 1, 7, 1234, 951241320, 485905563, 2147483647}
\* the largest total weight a summary is computed of (the sums of squares of
\* popSd stay within TLC's integers)
MaxTotal == 200

\* where the pointer is: left of the grid, in the first and the last column, right of the grid;
\* in the population tray and below it
ClickXs == {0, plotW - 1} \cup {gridX0 + (c * BOX) + 1 : c \in {0, Cols - 1}}
ClickYs == {marginY, marginY + H_TOP + 1}
\* the positions handed to modifyPopulation: below 0, the middle of two bins, 1 and beyond
Positions == {<<-1, 2 * Cols>>, <<1, 1>>, <<2 * Cols + 1, 2 * Cols>>}
                \cup {<<Val2(c), 2 * Cols>> : c \in {1, Cols - 1}}

\* y < targetY - 0.1: the landing tolerance
Tol == Px \div 10

VARIABLES
    \* the Engine instance of the page (part_001) / StatEngine (part_002):
    \* a record of its fields
    engine,
    \* the page: performance.now(), animate's lastTime, the pending setTimeout
    \* callbacks, the sample-size slider's n
    now, lastTime, timers, n,
    \* the CLTApp instance of the modular page: a record of its fields, of its
    \* StatEngine and of its pending setTimeout callbacks
    app,
    \* a second Engine instance, given the same calls as the first, and the
    \* difference of the two instances' performance.now()
    twin,
    \* history of the run, for stating the properties
    hist

pageVars == <<now, lastTime, timers, n>>

vars == <<engine, pageVars, app, twin, hist>>

\* new Engine(canvas): the fields after construction and applyGenerator("normal"),
\* with the seed, statistic and threshold the page's controls hold
Engine(seed, stat, th) ==
    [popCounts           |-> applyGenerator("normal"),
     midCounts           |-> ZeroCols,
     botCounts           |-> ZeroBins,
     sampleParticles     |-> <<>>,
     statParticles       |-> <<>>,
     popFlashes          |-> <<>>,
     gatherParticles     |-> <<>>,
     gatherTarget        |-> <<>>,
     gathering           |-> FALSE,
     gatherStart         |-> 0,
     gatherDur           |-> GatherDurDefault,
     emissionPlan        |-> <<>>,
     lastSample          |-> <<>>,
     lastGatheringSample |-> <<>>,
     statistic           |-> stat,
     threshold           |-> th,
     speed               |-> "normal",
     rng                 |-> rngMulberry32(seed),
     needsRedraw         |-> TRUE,
     BOX_TOP_Y           |-> BOX * Px,
     BOX_MID_Y           |-> BOX * Px,
     BOX_BOT_Y           |-> BOX * Px]

hasActiveAnimations(e) ==
    \/ e.emissionPlan # <<>>
    \/ e.sampleParticles # <<>>
    \/ e.statParticles # <<>>
    \/ e.gathering
    \/ e.popFlashes # <<>>
    \/ e.gatherParticles # <<>>

isIdle(e) == ~hasActiveAnimations(e)

hasSampleInMid(e) == \E i \in ColIdx : e.midCounts[i] > 0

\* validateSampleSize(n).valid
validateSampleSize(k) == ~(k < MinSampleSize) /\ ~(k > MaxSampleSize)

(***************************************************************************)
(* Engine.tick(dt, now), phase by phase.                                   *)
(***************************************************************************)
\* a release count that rounds f * p.total up
targetEmittedUp(p, nowT) ==
    IF nowT <= p.start THEN 0
    ELSE IF nowT >= p.end THEN p.total
    ELSE (((nowT - p.start) * p.total) + (p.end - p.start) - 1) \div (p.end - p.start)

\* Math.floor(f * p.total), f = clamp((now - p.start) / (p.end - p.start), 0, 1)
targetEmitted(p, nowT) ==
    IF nowT <= p.start THEN 0
    ELSE IF nowT >= p.end THEN p.total
    ELSE ((nowT - p.start) * p.total) \div (p.end - p.start)

\* toEmit after "if (toEmit <= 0 && f >= 1) toEmit = p.total - p.emitted"
toEmitOf(p, nowT) ==
    LET toEmit == targetEmitted(p, nowT) - p.emitted
    IN  IF toEmit <= 0 /\ nowT >= p.end THEN p.total - p.emitted ELSE toEmit

topBase == (marginY + H_TOP - 16) * Px
midBase == (marginY + H_TOP + H_MID - 8) * Px
botBase == (marginY + H_TOP + H_MID + H_BOT - 8) * Px
\* calculateWithGather: gatherY = marginY + H_TOP + H_MID / 2
gatherY == ((marginY + H_TOP) * Px) + ((H_MID * Px) \div 2)

\* const inflight = new Uint16Array(COLS); for (s of sampleParticles) inflight[s.col]++
inflightPerCol(particles) ==
    [c \in ColIdx |-> Cardinality({i \in 1 .. Len(particles) : particles[i].col = c})]

RECURSIVE emitParticles(_, _, _, _, _, _)
\* while (toEmit-- > 0 && p.emitted < p.total) { ... p.emitted++ }
\* k = toEmit, idx = p.emitted, inflight = particles in flight per column
emitParticles(e, k, p, idx, inflight, nowT) ==
    IF k <= 0 \/ idx >= p.total
    THEN [particles |-> <<>>, flashes |-> <<>>, emitted |-> idx]
    ELSE LET col     == p.cols[idx + 1]
             yStart  == IF e.popCounts[col] > 0
                        THEN topBase - ((e.popCounts[col] - 1) * e.BOX_TOP_Y)
                                     - (e.BOX_TOP_Y \div 2)
                        ELSE e.BOX_TOP_Y * 2
             level   == e.midCounts[col] + inflight[col]
             targetY == midBase - (level * e.BOX_MID_Y) - (e.BOX_MID_Y \div 2)
             rest    == emitParticles(e, k - 1, p, idx + 1,
                                      [inflight EXCEPT ![col] = @ + 1], nowT)
         IN  [particles |-> <<[col |-> col, y |-> yStart, vy |-> 0, targetY |-> targetY]>>
                              \o rest.particles,
              flashes   |-> <<[col |-> col, until |-> nowT + FlashMs]>> \o rest.flashes,
              emitted   |-> rest.emitted]

\* the emission phase of tick: the plan, the sample particles and the flashes
tickEmission(e, nowT) ==
    IF e.emissionPlan = <<>> THEN e
    ELSE LET p   == e.emissionPlan[1]
             out == IF toEmitOf(p, nowT) > 0
                    THEN emitParticles(e, toEmitOf(p, nowT), p, p.emitted,
                                       inflightPerCol(e.sampleParticles), nowT)
                    ELSE [particles |-> <<>>, flashes |-> <<>>, emitted |-> p.emitted]
         IN  [e EXCEPT !.emissionPlan    = IF out.emitted >= p.total THEN <<>>
                                           ELSE <<[p EXCEPT !.emitted = out.emitted]>>,
                       !.sampleParticles = @ \o out.particles,
                       !.popFlashes      = @ \o out.flashes]

\* the acceleration g of a tick
gOf(sp) == IF sp = "fast" THEN gFast ELSE gNormal

\* a particle that falls on without regard to its target
moveParticleOn(q, g, dt) ==
    LET vy1 == q.vy + ((g * dt) \div 200)
    IN  [q EXCEPT !.vy = vy1, !.y = q.y + (vy1 * dt)]

\* vy += g * dt; y = Math.min(y + vy * dt, targetY)
moveParticle(q, g, dt) ==
    LET vy1 == q.vy + ((g * dt) \div 200)
    IN  [q EXCEPT !.vy = vy1, !.y = Min2(q.y + (vy1 * dt), q.targetY)]

\* a particle that survives every tick
inFlightForever(q) == q.y <= q.targetY

\* the particle survives the tick: y < targetY - 0.1
inFlight(q) == q.y < q.targetY - Tol

\* a tray that counts every landed particle twice
landSampleTwice(counts, landedNow) ==
    [c \in ColIdx |->
        counts[c] + 2 * Cardinality({i \in 1 .. Len(landedNow) : landedNow[i].col = c})]

\* the tray after the particles that landed in this tick are counted:
\* this.midCounts[s.col] = (this.midCounts[s.col] || 0) + 1 for each of them
landSample(counts, landedNow) ==
    [c \in ColIdx |->
        counts[c] + Cardinality({i \in 1 .. Len(landedNow) : landedNow[i].col = c})]

\* this.botCounts[p.bin] = (this.botCounts[p.bin] || 0) + 1 for each statistic
\* particle that landed (a NaN bin is no element of the typed array: no write)
landStat(counts, landedNow) ==
    [b \in BinIdx |->
        counts[b] + Cardinality({i \in 1 .. Len(landedNow) : landedNow[i].bin = b})]

\* a sample-particle phase that counts the landed particles and keeps them
tickSampleParticlesKeep(e, dt) ==
    LET moved == [i \in 1 .. Len(e.sampleParticles) |->
                    moveParticle(e.sampleParticles[i], gOf(e.speed), dt)]
    IN  [e EXCEPT !.sampleParticles = moved,
                  !.midCounts = landSample(@, SelectSeq(moved, LAMBDA q : ~inFlight(q)))]

\* the sample-particle phase of tick
tickSampleParticles(e, dt) ==
    LET moved == [i \in 1 .. Len(e.sampleParticles) |->
                    moveParticle(e.sampleParticles[i], gOf(e.speed), dt)]
    IN  [e EXCEPT !.sampleParticles = SelectSeq(moved, inFlight),
                  !.midCounts = landSample(@, SelectSeq(moved, LAMBDA q : ~inFlight(q)))]

\* the gather completes in this tick: gathering && gatherTarget && t >= 1
gatherCompletes(e, nowT) ==
    e.gathering /\ e.gatherTarget # <<>> /\ nowT - e.gatherStart >= e.gatherDur

\* a statistic particle that is sent one histogram's width beyond its bin
spawnStatParticleBeyond(e) ==
    [bin |-> e.gatherTarget[1].bin + StatBins, y |-> e.gatherTarget[1].y, vy |-> 0,
     targetY |-> botBase - (e.BOX_BOT_Y \div 2)]

\* the statistic particle a completed gather spawns
spawnStatParticle(e) ==
    LET target == e.gatherTarget[1]
        inflightForBin == Cardinality({i \in 1 .. Len(e.statParticles) :
                                          e.statParticles[i].bin = target.bin})
        level == (IF target.bin \in BinIdx THEN e.botCounts[target.bin] ELSE 0)
                 + inflightForBin
    IN  [bin |-> target.bin, y |-> target.y, vy |-> 0,
         targetY |-> botBase - (level * e.BOX_BOT_Y) - (e.BOX_BOT_Y \div 2)]

\* the gathering phase of tick
tickGathering(e, nowT) ==
    IF gatherCompletes(e, nowT)
    THEN [e EXCEPT !.statParticles = Append(@, spawnStatParticle(e)),
                   !.gathering = FALSE,
                   !.gatherTarget = <<>>,
                   !.gatherParticles = <<>>,
                   !.lastGatheringSample = <<>>]
    ELSE e

\* the statistic-particle phase of tick
tickStatParticles(e, dt) ==
    LET moved == [i \in 1 .. Len(e.statParticles) |->
                    moveParticle(e.statParticles[i], gOf(e.speed), dt)]
    IN  [e EXCEPT !.statParticles = SelectSeq(moved, inFlight),
                  !.botCounts = landStat(@, SelectSeq(moved, LAMBDA q : ~inFlight(q)))]

\* a tick that requests a repaint only while an animation is still active
tickStillActive(e, dt, nowT) ==
    LET e1 == tickEmission(e, nowT)
        e2 == tickSampleParticles(e1, dt)
        e3 == tickGathering(e2, nowT)
        e4 == tickStatParticles(e3, dt)
        e5 == [e4 EXCEPT !.popFlashes = SelectSeq(@, LAMBDA f : f.until > nowT)]
    IN  [e5 EXCEPT !.needsRedraw = @ \/ hasActiveAnimations(e5)]

\* Engine.tick(dt, nowT): the engine after the tick
tick(e, dt, nowT) ==
    LET e1 == tickEmission(e, nowT)
        e2 == tickSampleParticles(e1, dt)
        e3 == tickGathering(e2, nowT)
        e4 == tickStatParticles(e3, dt)
        e5 == [e4 EXCEPT !.popFlashes = SelectSeq(@, LAMBDA f : f.until > nowT)]
    IN  [e5 EXCEPT !.needsRedraw = @ \/ hasActiveAnimations(e5) \/ hasActiveAnimations(e)]

\* one of the three box heights Engine.draw() recomputes
scaledBox(counts, k, h) ==
    LET need == MaxTo(counts, k) * BOX
    IN  IF need > 0 /\ h - 28 < need THEN ((h - 28) * BOX * Px) \div need ELSE BOX * Px

\* Engine.draw(): repaints when needsRedraw is set, rescales the boxes of the
\* three trays to fit, and clears the flag
draw(e) ==
    IF ~e.needsRedraw THEN e
    ELSE [e EXCEPT !.BOX_TOP_Y = scaledBox(e.popCounts, Cols - 1, H_TOP),
                   !.BOX_MID_Y = scaledBox(e.midCounts, Cols - 1, H_MID),
                   !.BOX_BOT_Y = scaledBox(e.botCounts, StatBins - 1, H_BOT),
                   !.needsRedraw = FALSE]

(***************************************************************************)
(* The engine's requests.  perfNow is what performance.now() returns.      *)
(***************************************************************************)
\* Engine.scheduleEmission(xs, cols, dropMs)
scheduleEmission(e, cols, dropMs, perfNow) ==
    [e EXCEPT !.lastSample = cols,
              !.emissionPlan = <<[start |-> perfNow, end |-> perfNow + dropMs,
                                  total |-> Len(cols), emitted |-> 0, cols |-> cols]>>]

\* Engine.startSample(n, dropMs)
startSample(e, k, dropMs, perfNow) ==
    LET s == sampleN(k, e.rng, e.popCounts)
    IN  scheduleEmission([e EXCEPT !.rng = s.rng], s.cols, dropMs, perfNow)

RECURSIVE trayValues(_, _)
\* calculateWithGather, no uncommitted sample: one midpoint per landed value,
\* column by column from column c on
trayValues(counts, c) ==
    IF c >= Cols THEN <<>>
    ELSE [r \in 1 .. counts[c] |-> c] \o trayValues(counts, c + 1)

RECURSIVE trayParticles(_, _)
\* the gather particles, one per landed value (column and row it starts from;
\* their interpolated positions are only drawn)
trayParticles(counts, c) ==
    IF c >= Cols THEN <<>>
    ELSE [r \in 1 .. counts[c] |-> [col |-> c, row |-> r - 1]] \o trayParticles(counts, c + 1)

\* a gather that always computes its statistic over the landed values
gatherSampleLanded(e) == trayValues(e.midCounts, 0)

\* the sample a gather starting in this state computes its statistic over
gatherSample(e) == IF e.lastSample # <<>> THEN e.lastSample ELSE trayValues(e.midCounts, 0)

\* calculateWithGather goes past its first line: there is something to gather
gatherStarts(e) == e.lastSample # <<>> \/ hasSampleInMid(e)

\* Engine.calculateWithGather()
calculateWithGather(e, perfNow) ==
    IF ~gatherStarts(e) THEN e
    ELSE [e EXCEPT !.lastGatheringSample = gatherSample(e),
                   !.gatherParticles = trayParticles(e.midCounts, 0),
                   !.midCounts = ZeroCols,
                   !.gatherTarget =
                       <<[bin |-> resolveBin(computeStat(gatherSample(e), e.statistic,
                                                         e.threshold), e.statistic),
                          y   |-> gatherY]>>,
                   !.gathering = TRUE,
                   !.gatherStart = perfNow,
                   !.lastSample = <<>>]

\* Engine.drawSampleWithAutoCalculate(n, dropMs): the engine after the call and
\* the callbacks it hands to setTimeout
drawSampleWithAutoCalculate(e, k, dropMs, perfNow) ==
    IF e.lastSample # <<>> \/ hasSampleInMid(e)
    THEN [engine   |-> calculateWithGather(e, perfNow),
          timeouts |-> <<[due |-> perfNow + TimerDelay, n |-> k, dropMs |-> dropMs]>>]
    ELSE [engine   |-> startSample(e, k, dropMs, perfNow),
          timeouts |-> <<>>]

\* Engine.clearTray()
clearTray(e) ==
    [e EXCEPT !.midCounts = ZeroCols,
              !.lastSample = <<>>,
              !.sampleParticles = <<>>,
              !.emissionPlan = <<>>,
              !.gatherParticles = <<>>,
              !.gathering = FALSE,
              !.needsRedraw = TRUE]

\* Engine.resetExperiment()
resetExperiment(e) ==
    [e EXCEPT !.botCounts = ZeroBins,
              !.statParticles = <<>>,
              !.needsRedraw = TRUE]

\* clamp(Math.floor((xCanvas - this.gridX0) / this.BOX), 0, COLS - 1)
clickedCol(xCanvas) == clamp((xCanvas - gridX0) \div BOX, 0, Cols - 1)

\* a click that adds 1 whatever the weight is
clickPopulationUnclamped(e, xCanvas, yCanvas) ==
    IF yCanvas > marginY + H_TOP THEN e
    ELSE [e EXCEPT !.popCounts[clickedCol(xCanvas)] = @ + 1, !.needsRedraw = TRUE]

\* Engine.clickPopulation(xCanvas, yCanvas)
clickPopulation(e, xCanvas, yCanvas) ==
    IF yCanvas > marginY + H_TOP THEN e
    ELSE [e EXCEPT !.popCounts[clickedCol(xCanvas)] = clamp(@ + 1, 0, PopMax),
                   !.needsRedraw = TRUE]

\* Engine.altClickPopulation(xCanvas, yCanvas)
altClickPopulation(e, xCanvas, yCanvas) ==
    IF yCanvas > marginY + H_TOP THEN e
    ELSE [e EXCEPT !.popCounts[clickedCol(xCanvas)] = clamp(@ - 1, 0, PopMax),
                   !.needsRedraw = TRUE]

\* an iteration that starts the distribution anew
turboIterationAnew(e, k) ==
    LET s   == sampleN(k, e.rng, e.popCounts)
        v   == computeStat(s.cols, e.statistic, e.threshold)
        bin == resolveBin(v, e.statistic)
    IN  [e EXCEPT !.rng = s.rng,
                  !.botCounts = IF bin \in BinIdx THEN [ZeroBins EXCEPT ![bin] = 1] ELSE @]

\* one iteration of handleRepeatTurbo(n): sample, statistic, bin, increment
\* (a NaN bin is no element of the typed array: nothing is written)
turboIteration(e, k) ==
    LET s   == sampleN(k, e.rng, e.popCounts)
        v   == computeStat(s.cols, e.statistic, e.threshold)
        bin == resolveBin(v, e.statistic)
    IN  [e EXCEPT !.rng = s.rng,
                  !.botCounts = IF bin \in BinIdx THEN [@ EXCEPT ![bin] = @ + 1] ELSE @]

RECURSIVE turboLoop(_, _, _)
\* the iterations of the loop of handleRepeatTurbo that are still to run
turboLoop(e, k, count) ==
    IF count <= 0 THEN e ELSE turboLoop(turboIteration(e, k), k, count - 1)

\* Engine.handleRepeatTurbo(n)
handleRepeatTurbo(e, k) ==
    [turboLoop(e, k, TurboIterations) EXCEPT !.needsRedraw = TRUE]

(***************************************************************************)
(* The population's summary (get popStats; StatEngine.getPopulationStats   *)
(* computes the same values).  weights is the population histogram.        *)
(***************************************************************************)
RECURSIVE SumWeighted(_, _)
\* sum over the bins 0 .. k of weights[c] * (2c + 1)
SumWeighted(weights, k) ==
    IF k < 0 THEN 0 ELSE (weights[k] * Val2(k)) + SumWeighted(weights, k - 1)

\* mu = total ? mu / total : 0.5
popMu(weights) ==
    IF SumCols(weights) = 0 THEN Frac(1, 2)
    ELSE Frac(SumWeighted(weights, Cols - 1), 2 * Cols * SumCols(weights))

RECURSIVE SumWeightedSqDev(_, _, _, _)
\* sum over the bins 0 .. k of weights[c] * (total * (2c + 1) - S)^2
SumWeightedSqDev(weights, total, S, k) ==
    IF k < 0 THEN 0
    ELSE (weights[k] * ((total * Val2(k)) - S) * ((total * Val2(k)) - S))
            + SumWeightedSqDev(weights, total, S, k - 1)

\* sdPop = total ? Math.sqrt(s2 / total) : 0
popSd(weights) ==
    LET total == SumCols(weights)
    IN  IF total = 0 THEN Frac(0, 1)
        ELSE SqrtFrac(SumWeightedSqDev(weights, total, SumWeighted(weights, Cols - 1), Cols - 1),
                      (2 * Cols * total) * (2 * Cols * total) * total)

RECURSIVE popMedFrom(_, _, _)
\* for (c ...) { acc += pc[c]; if (acc >= half) { medv = (c + 0.5) / COLS; break; } }
\* half = total / 2, compared without rounding: 2 * acc >= total
popMedFrom(weights, total, c) ==
    IF c >= Cols THEN Frac(1, 2)
    ELSE IF 2 * SumTo(weights, c) >= total THEN Frac(Val2(c), 2 * Cols)
    ELSE popMedFrom(weights, total, c + 1)

\* the midpoint of the first bin whose cumulative weight is above half the total
popMedAbove(weights) ==
    LET total == SumCols(weights)
        above == {c \in ColIdx : 2 * SumTo(weights, c) > total}
    IN  IF above = {} THEN Frac(1, 2)
        ELSE Frac(Val2(CHOOSE c \in above : \A d \in above : c <= d), 2 * Cols)

\* medv
popMed(weights) ==
    IF SumCols(weights) = 0 THEN Frac(1, 2) ELSE popMedFrom(weights, SumCols(weights), 0)

RECURSIVE popGreater(_, _, _)
\* greater: the weight of the bins 0 .. k with x > this.threshold
popGreater(weights, th, k) ==
    IF k < 0 THEN 0
    ELSE (IF AboveThreshold(k, th) THEN weights[k] ELSE 0) + popGreater(weights, th, k - 1)

\* pthr = total ? greater / total : 0
popPthr(weights, th) ==
    IF SumCols(weights) = 0 THEN Frac(0, 1)
    ELSE Frac(popGreater(weights, th, Cols - 1), SumCols(weights))

\* get popStats()
popStats(e) ==
    [mu    |-> popMu(e.popCounts),
     sd    |-> popSd(e.popCounts),
     med   |-> popMed(e.popCounts),
     pthr  |-> popPthr(e.popCounts, e.threshold),
     total |-> SumCols(e.popCounts)]

(***************************************************************************)
(* The page (part_001, mount): handlers, timers and the animation loop.    *)
(***************************************************************************)
\* The history of a run: the requests made so far; the gathers started, the
\* statistic particles spawned and the emission plans created; the seed last
\* set and the RNG outputs drawn since; the bins of the sample drawn last; the
\* sampling distribution as the last clear or reset left it; the two engines as
\* they were before the last call on the population model or the sampler, and
\* that call's arguments and what it returned.
NoHistory ==
    [kinds |-> <<>>, gathers |-> 0, spawned |-> 0, plans |-> 0,
     seed |-> 1234, outputs |-> 0, sample |-> <<>>, cleared |-> ZeroBins,
     before |-> <<>>, input |-> <<>>, result |-> <<>>]

\* the runs explored: the requests of the user on one of the two pages, in
\* order, each made at any moment
RequestKinds == {"draw", "gather", "clear", "reset", "seed"}

AppKinds == {"appDrawSample", "appRepeat", "appReset", "appSeedChange", "appSpeedChange"}

\* the other controls of the two pages: the x1000 button of the animated page,
\* the statistic and the distribution selects, the threshold slider, the pointer
\* on the canvas (a repeat of the modular app runs in bulk at speed "fast")
ControlKinds == {"turbo", "statistic", "threshold", "pointer", "distribution"}

AppControlKinds ==
    {"appStatisticChange", "appThresholdChange", "appPointer", "appDistributionChange"}

Scripts ==
    {<<a, b>> : a \in RequestKinds, b \in RequestKinds}
        \cup {<<"draw", "draw", "draw">>, <<"draw", "draw", "clear">>,
              <<"draw", "gather", "gather">>, <<"draw", "draw", "reset">>}
        \cup {<<a, b, c>> : a \in AppKinds, b \in AppKinds, c \in AppKinds}
        \cup {<<"turbo", b>> : b \in ControlKinds \cup {"draw", "reset"}}
        \cup {<<"draw", "turbo">>, <<"statistic", "turbo">>, <<"pointer", "draw">>}
        \cup {<<"appSpeedChange", "appRepeat", b>> : b \in AppControlKinds}
        \cup {<<"appStatisticChange", "appSpeedChange", "appRepeat">>,
              <<"appPointer", "appDrawSample">>}

\* the requests made so far in the runs explored
Prefixes == UNION {{SubSeq(s, 1, k) : k \in 1 .. Len(s)} : s \in Scripts}

\* the user may make a request of this kind now: the run stays one of Scripts
Requested(kind) == Append(hist.kinds, kind) \in Prefixes

\* One frame of the animation loop: the clock moves on by one frame and
\* requestAnimationFrame calls animate(currentTime), which ticks the engine and
\* draws when needed.  A setTimeout callback whose time has come runs before the
\* next frame.  While the engine is idle, nothing is to be redrawn and no
\* callback is pending, a frame changes nothing but the clock, and every later
\* step depends on differences of times only: the model takes no frame there.
Animate ==
    /\ hasActiveAnimations(engine) \/ engine.needsRedraw \/ timers # <<>>
    /\ \A i \in 1 .. Len(timers) : timers[i].due > now
    /\ now + TimeStep <= MaxTime
    /\ now' = now + TimeStep
    /\ lastTime' = now'
    /\ \E e1 \in {tick(engine, Min2(DtCapMs, now' - lastTime), now')} :
          /\ engine' = IF e1.needsRedraw \/ hasActiveAnimations(e1) THEN draw(e1) ELSE e1
          /\ hist' = [hist EXCEPT
                         !.spawned = @ + (IF gatherCompletes(engine, now') THEN 1 ELSE 0)]
    /\ UNCHANGED <<timers, n, app, twin>>

\* the draw button
DrawSampleClick ==
    /\ Requested("draw")
    /\ validateSampleSize(n)
    /\ \E r \in {drawSampleWithAutoCalculate(engine, n, DropMs, now)} :
           /\ engine' = r.engine
           /\ timers' = timers \o r.timeouts
           /\ hist' = [hist EXCEPT
                          !.kinds = Append(@, "draw"),
                          !.gathers = @ + (IF gatherStarts(engine) THEN 1 ELSE 0),
                          !.plans = @ + (IF gatherStarts(engine) THEN 0 ELSE 1),
                          !.outputs = @ + (IF gatherStarts(engine) THEN 0 ELSE n),
                          !.sample = IF gatherStarts(engine) THEN @ ELSE r.engine.lastSample]
    /\ UNCHANGED <<now, lastTime, n, app, twin>>

\* the delayed startSample of drawSampleWithAutoCalculate fires: the pending
\* callback that is due first, once its time has come
TimerFire ==
    /\ timers # <<>>
    /\ timers[1].due <= now
    /\ engine' = startSample(engine, timers[1].n, timers[1].dropMs, now)
    /\ timers' = Tail(timers)
    /\ hist' = [hist EXCEPT !.plans = @ + 1, !.outputs = @ + timers[1].n,
                            !.sample = engine'.lastSample]
    /\ UNCHANGED <<now, lastTime, n, app, twin>>

\* a direct call of engine.calculateWithGather()
GatherCall ==
    /\ Requested("gather")
    /\ engine' = calculateWithGather(engine, now)
    /\ hist' = [hist EXCEPT
                   !.kinds = Append(@, "gather"),
                   !.gathers = @ + (IF gatherStarts(engine) THEN 1 ELSE 0)]
    /\ UNCHANGED <<pageVars, app, twin>>

\* a direct call of engine.clearTray()
ClearTrayCall ==
    /\ Requested("clear")
    /\ engine' = clearTray(engine)
    /\ hist' = [hist EXCEPT !.kinds = Append(@, "clear"), !.cleared = engine'.botCounts]
    /\ UNCHANGED <<pageVars, app, twin>>

\* the reset button: engine.clearTray(); engine.resetExperiment()
ResetClick ==
    /\ Requested("reset")
    /\ engine' = resetExperiment(clearTray(engine))
    /\ hist' = [hist EXCEPT !.kinds = Append(@, "reset"), !.cleared = engine'.botCounts]
    /\ UNCHANGED <<pageVars, app, twin>>

\* the seed input: engine.rng = rngMulberry32(parseInt(this.value) || 0)
SeedInput ==
    /\ Requested("seed")
    /\ \E seed \in Seeds :
          /\ engine' = [engine EXCEPT !.rng = rngMulberry32(seed)]
          /\ hist' = [hist EXCEPT !.kinds = Append(@, "seed"), !.seed = seed, !.outputs = 0]
    /\ UNCHANGED <<pageVars, app, twin>>

\* the x1000 button: engine.handleRepeatTurbo(n)
TurboClick ==
    /\ Requested("turbo")
    /\ validateSampleSize(n)
    /\ engine' = handleRepeatTurbo(engine, n)
    /\ hist' = [hist EXCEPT !.kinds = Append(@, "turbo"),
                            !.before = [engine |-> engine, app |-> app],
                            !.outputs = @ + (TurboIterations * n)]
    /\ UNCHANGED <<pageVars, app, twin>>

\* the statistic select: engine.statistic = this.value
StatisticSelect ==
    /\ Requested("statistic")
    /\ \E stat \in StatisticNames \ {engine.statistic} :
          engine' = [engine EXCEPT !.statistic = stat]
    /\ hist' = [hist EXCEPT !.kinds = Append(@, "statistic")]
    /\ UNCHANGED <<pageVars, app, twin>>

\* the threshold slider: engine.threshold = parseFloat(this.value)
ThresholdInput ==
    /\ Requested("threshold")
    /\ \E th \in PopThresholds \ {engine.threshold} :
          engine' = [engine EXCEPT !.threshold = th]
    /\ hist' = [hist EXCEPT !.kinds = Append(@, "threshold")]
    /\ UNCHANGED <<pageVars, app, twin>>

\* pointerdown on the canvas: the pointer draws or, with erase, takes away
PointerDown ==
    /\ Requested("pointer")
    /\ \E x \in ClickXs, y \in ClickYs, isErase \in BOOLEAN :
          /\ engine' = IF isErase THEN altClickPopulation(engine, x, y)
                       ELSE clickPopulation(engine, x, y)
          /\ hist' = [hist EXCEPT !.kinds = Append(@, "pointer"),
                                  !.before = [engine |-> engine, app |-> app],
                                  !.input = <<x, y, isErase>>]
    /\ UNCHANGED <<pageVars, app, twin>>

\* the distribution select: engine.applyGenerator(this.value)
DistributionSelect ==
    /\ Requested("distribution")
    /\ \E name \in GeneratorNames :
          engine' = [engine EXCEPT !.popCounts = applyGenerator(name), !.needsRedraw = TRUE]
    /\ hist' = [hist EXCEPT !.kinds = Append(@, "distribution")]
    /\ UNCHANGED <<pageVars, app, twin>>

(***************************************************************************)
(* The modular app: StatEngine (shared/modules/stat-engine.js) and CLTApp  *)
(* (shared/modules/clt-app.js).  Values are exact fractions; the engine's  *)
(* floating point agrees with them except within rounding of a bin edge.   *)
(***************************************************************************)
\* MathUtils.createRNG(seed): let t = seed >>> 0
createRNG(seed) == ToU32(seed)

\* MathUtils.variance(array, true)
variance(xs) ==
    LET k == Len(xs)
    IN  IF k < 2 THEN NaN
        ELSE Frac(SumSqDev(xs, k, SumVal2(xs)), (2 * Cols * k) * (2 * Cols * k) * (k - 1))

\* MathUtils.standardDeviation(array, true)
standardDeviation(xs) ==
    LET v == variance(xs)
    IN  IF v.kind # "NaN" /\ v.num >= 0 THEN SqrtFrac(v.num, v.den) ELSE Frac(0, 1)

\* a constructor whose config is not overwritten by the options
StatEngineDefaulted(opt) ==
    LET seed == IF opt = <<>> \/ opt[1] = 0 THEN 1234 ELSE opt[1]
    IN  [config           |-> [seed |-> seed],
         populationData   |-> ZeroCols,
         sampleData       |-> ZeroCols,
         samplingDistData |-> ZeroBins,
         currentSample    |-> <<>>,
         statistic        |-> "mean",
         threshold        |-> <<1, 2>>,
         speed            |-> "normal",
         rng              |-> createRNG(seed)]

\* new StatEngine({cols, statBins, seed}): reset() and the stream of config.seed;
\* opt is <<>> when the options carry no seed.  config is built with
\* seed: options.seed || 1234 and then ...options, which writes the options'
\* own seed over it
StatEngine(opt) ==
    LET defaulted == IF opt = <<>> \/ opt[1] = 0 THEN 1234 ELSE opt[1]
        seed      == IF opt = <<>> THEN defaulted ELSE opt[1]
    IN  [config           |-> [seed |-> seed],
         populationData   |-> ZeroCols,
         sampleData       |-> ZeroCols,
         samplingDistData |-> ZeroBins,
         currentSample    |-> <<>>,
         statistic        |-> "mean",
         threshold        |-> <<1, 2>>,
         speed            |-> "normal",
         rng              |-> createRNG(seed)]

\* StatEngine.setPopulationGenerator(name) throws 'Unknown generator' when
\* generators[name] is undefined
unknownGenerator(name) == name \notin GeneratorNames

\* StatEngine.setPopulationGenerator(name): the engine after the call (as it
\* was when the call throws)
setPopulationGenerator(se, name) ==
    IF unknownGenerator(name) THEN se
    ELSE [se EXCEPT !.populationData = [c \in ColIdx |-> GeneratorTable[name][Cols][c + 1]]]

\* StatEngine.modifyPopulation(position, delta), position = <<num, den>>
modifyPopulation(se, position, delta) ==
    LET col == clamp((position[1] * Cols) \div position[2], 0, Cols - 1)
    IN  [se EXCEPT !.populationData[col] = clamp(@ + delta, 0, PopMax)]

\* StatEngine.getPopulationStats()
getPopulationStats(se) ==
    [mean       |-> popMu(se.populationData),
     sd         |-> popSd(se.populationData),
     median     |-> popMed(se.populationData),
     proportion |-> popPthr(se.populationData, se.threshold),
     total      |-> SumCols(se.populationData)]

RECURSIVE StatEngine_chosen(_, _, _, _)
\* the weighted branch's loop over the bins: acc += weights[c]; target <= acc
StatEngine_chosen(u, weights, totalWeight, c) ==
    IF c >= Cols THEN Cols \div 2
    ELSE IF ScaleLeq(u, totalWeight, SumTo(weights, c)) THEN c
    ELSE StatEngine_chosen(u, weights, totalWeight, c + 1)

RECURSIVE StatEngine_columns(_, _, _, _)
\* the sampleCols of sampleSize calls of this.rng(), and the stream after them
StatEngine_columns(sampleSize, t, weights, totalWeight) ==
    IF sampleSize <= 0 THEN [columns |-> <<>>, rng |-> t]
    ELSE LET t1   == rngStep(t)
             col  == IF totalWeight = 0 THEN ScaleFloor(rngMix(t1), Cols)
                     ELSE StatEngine_chosen(rngMix(t1), weights, totalWeight, 0)
             rest == StatEngine_columns(sampleSize - 1, t1, weights, totalWeight)
         IN  [columns |-> <<col>> \o rest.columns, rng |-> rest.rng]

\* StatEngine.drawSample(sampleSize): the engine after it and the columns
\* returned (the values are the columns' midpoints)
StatEngine_drawSample(se, sampleSize) ==
    LET r == StatEngine_columns(sampleSize, se.rng, se.populationData,
                                SumCols(se.populationData))
    IN  [engine  |-> [se EXCEPT !.rng = r.rng, !.currentSample = r.columns],
         columns |-> r.columns]

\* StatEngine.computeStatistic(values)
computeStatistic(se, values) ==
    IF Len(values) = 0 THEN NaN
    ELSE IF se.statistic = "mean" THEN mean(values)
    ELSE IF se.statistic = "median" THEN med(values)
    ELSE IF se.statistic = "sd" THEN standardDeviation(values)
    ELSE IF se.statistic = "proportion"
         THEN Frac(Cardinality({i \in 1 .. Len(values) :
                                   AboveThreshold(values[i], se.threshold)}), Len(values))
    ELSE NaN

\* StatEngine.getStatisticDomain(): twice the domain's max (its min is 0)
getStatisticDomain(se) == IF se.statistic = "sd" THEN 1 ELSE 2

\* the bin of addToSamplingDistribution:
\*   clamp(floor(clamp((v - min) / (max - min), 0, 1) * statBins), 0, statBins - 1)
samplingBin(se, val) ==
    LET dom2 == getStatisticDomain(se)
    IN  IF val.kind = "NaN" THEN NoBin
        ELSE IF val.kind = "frac"
        THEN clamp((2 * val.num * StatBins) \div (dom2 * val.den), 0, StatBins - 1)
        ELSE LET ks == {k \in 0 .. StatBins :
                          k * k * dom2 * dom2 * val.den <= 4 * StatBins * StatBins * val.num}
             IN  clamp(CHOOSE k \in ks : \A j \in ks : j <= k, 0, StatBins - 1)

\* StatEngine.addToSamplingDistribution(statisticValue)
addToSamplingDistribution(se, val) ==
    LET bin == samplingBin(se, val)
    IN  IF bin \in BinIdx THEN [se EXCEPT !.samplingDistData[bin] = @ + 1] ELSE se

\* StatEngine.reset()
reset(se) ==
    [se EXCEPT !.populationData   = ZeroCols,
               !.sampleData       = ZeroCols,
               !.samplingDistData = ZeroBins,
               !.currentSample    = <<>>,
               !.statistic        = "mean",
               !.threshold        = <<1, 2>>,
               !.speed            = "normal"]

\* StatEngine.clearSample()
clearSample(se) == [se EXCEPT !.sampleData = ZeroCols, !.currentSample = <<>>]

\* StatEngine.clearSamplingDistribution()
clearSamplingDistribution(se) == [se EXCEPT !.samplingDistData = ZeroBins]

\* StatEngine.clearAll()
clearAll(se) == clearSamplingDistribution(clearSample(se))

RECURSIVE runBulkSimulation(_, _, _)
\* StatEngine.runBulkSimulation(sampleSize, iterations)
runBulkSimulation(se, sampleSize, iterations) ==
    IF iterations <= 0 THEN se
    ELSE LET d         == StatEngine_drawSample(se, sampleSize)
             statValue == computeStatistic(d.engine, d.columns)
         IN  runBulkSimulation(IF statValue.kind # "NaN"
                               THEN addToSamplingDistribution(d.engine, statValue)
                               ELSE d.engine,
                               sampleSize, iterations - 1)

\* CLTApp.updateSampleVisualization(sampleResult)
updateSampleVisualization(se, columns) ==
    [clearSample(se) EXCEPT
        !.sampleData = [c \in ColIdx |->
                           Cardinality({i \in 1 .. Len(columns) : columns[i] = c})]]

\* the body CLTApp.drawSample and animate share: draw one sample, show it in
\* the tray, compute its statistic and record it unless it is NaN
drawOne(se, sampleSize) ==
    LET d     == StatEngine_drawSample(se, sampleSize)
        shown == updateSampleVisualization(d.engine, d.columns)
        value == computeStatistic(shown, d.columns)
    IN  IF value.kind # "NaN" THEN addToSamplingDistribution(shown, value) ELSE shown

\* new CLTApp(...): initializeComponents()
CLTApp ==
    [engine         |-> setPopulationGenerator(StatEngine(<<1234>>), "normal"),
     animationState |-> [isRunning |-> FALSE, currentIteration |-> 0, totalIterations |-> 0],
     controls       |-> [speed |-> "normal"],
     timeouts       |-> <<>>]

\* CLTApp.drawSample()
CLTApp_drawSample(a, sampleSize) ==
    IF a.animationState.isRunning THEN a
    ELSE [a EXCEPT !.engine = drawOne(@, sampleSize)]

\* animate() of runAnimatedSampling(count, sampleSize); it hands itself to
\* setTimeout(animate, 50) after every sample it draws
animate(a, sampleSize) ==
    IF a.animationState.currentIteration >= a.animationState.totalIterations
    THEN [a EXCEPT !.animationState.isRunning = FALSE]
    ELSE [a EXCEPT !.engine = drawOne(@, sampleSize),
                   !.animationState.currentIteration = @ + 1,
                   !.timeouts = Append(@, sampleSize)]

\* CLTApp.runAnimatedSampling(count, sampleSize)
runAnimatedSampling(a, count, sampleSize) ==
    animate([a EXCEPT !.animationState =
                [isRunning |-> TRUE, currentIteration |-> 0, totalIterations |-> count]],
            sampleSize)

\* a runMultipleSamples that does not look at isRunning
runMultipleSamplesAnyTime(a, count, sampleSize) ==
    IF a.controls.speed = "fast" \/ count >= BulkFrom
    THEN [a EXCEPT !.engine = runBulkSimulation(@, sampleSize, count)]
    ELSE runAnimatedSampling(a, count, sampleSize)

\* CLTApp.runMultipleSamples(count)
runMultipleSamples(a, count, sampleSize) ==
    IF a.animationState.isRunning THEN a
    ELSE IF a.controls.speed = "fast" \/ count >= BulkFrom
    THEN [a EXCEPT !.engine = runBulkSimulation(@, sampleSize, count)]
    ELSE runAnimatedSampling(a, count, sampleSize)

\* CLTApp.reset()
CLTApp_reset(a) ==
    [a EXCEPT !.animationState.isRunning = FALSE, !.engine = clearAll(@)]

\* a seedChange handler that keeps the stream it finds
seedChangeKeepsStream(a, seed) ==
    [a EXCEPT !.engine = clearAll([@ EXCEPT !.config.seed = seed])]

\* the seedChange handler
seedChange(a, seed) ==
    [a EXCEPT !.engine = clearAll([@ EXCEPT !.config.seed = seed, !.rng = createRNG(seed)])]

\* the speedChange handler (the control panel keeps the value in controls.speed)
speedChange(a, sp) ==
    [a EXCEPT !.controls.speed = sp, !.engine.speed = sp]

(***************************************************************************)
(* The modular page: the action bar's and the control panel's events, and  *)
(* the setTimeout callbacks of an animated repeat.                         *)
(***************************************************************************)
\* the RNG outputs one CLTApp.runMultipleSamples(count) consumes before it returns
outputsOfRepeat(a, count, sampleSize) ==
    IF a.animationState.isRunning THEN 0
    ELSE IF a.controls.speed = "fast" \/ count >= BulkFrom THEN count * sampleSize
    ELSE IF count > 0 THEN sampleSize
    ELSE 0

\* actionBar 'drawSample'
AppDrawSample ==
    /\ Requested("appDrawSample")
    /\ app' = CLTApp_drawSample(app, n)
    /\ hist' = [hist EXCEPT
                   !.kinds = Append(@, "appDrawSample"),
                   !.outputs = @ + (IF app.animationState.isRunning THEN 0 ELSE n),
                   !.sample = IF app.animationState.isRunning THEN @
                              ELSE StatEngine_drawSample(app.engine, n).columns]
    /\ UNCHANGED <<engine, pageVars, twin>>

\* actionBar 'repeat' (the x10 button)
AppRepeat ==
    /\ Requested("appRepeat")
    /\ app' = runMultipleSamples(app, RepeatCount, n)
    /\ hist' = [hist EXCEPT
                   !.kinds = Append(@, "appRepeat"),
                   !.outputs = @ + outputsOfRepeat(app, RepeatCount, n),
                   !.sample = IF outputsOfRepeat(app, RepeatCount, n) = 0 THEN @
                              ELSE IF app'.engine.currentSample # <<>>
                              THEN app'.engine.currentSample
                              ELSE StatEngine_drawSample(app.engine, n).columns]
    /\ UNCHANGED <<engine, pageVars, twin>>

\* a pending setTimeout(animate, 50) callback runs
AppTimeout ==
    /\ app.timeouts # <<>>
    /\ app' = animate([app EXCEPT !.timeouts = Tail(@)], Head(app.timeouts))
    /\ hist' = [hist EXCEPT
                   !.outputs = @ + (IF app.animationState.currentIteration
                                         < app.animationState.totalIterations
                                    THEN Head(app.timeouts) ELSE 0),
                   !.sample = IF app.animationState.currentIteration
                                    < app.animationState.totalIterations
                              THEN StatEngine_drawSample(app.engine, Head(app.timeouts)).columns
                              ELSE @]
    /\ UNCHANGED <<engine, pageVars, twin>>

\* actionBar 'reset'
AppReset ==
    /\ Requested("appReset")
    /\ app' = CLTApp_reset(app)
    /\ hist' = [hist EXCEPT !.kinds = Append(@, "appReset")]
    /\ UNCHANGED <<engine, pageVars, twin>>

\* controlPanel 'seedChange'
AppSeedChange ==
    /\ Requested("appSeedChange")
    /\ \E seed \in Seeds :
          /\ app' = seedChange(app, seed)
          /\ hist' = [hist EXCEPT !.kinds = Append(@, "appSeedChange"),
                                  !.seed = seed, !.outputs = 0]
    /\ UNCHANGED <<engine, pageVars, twin>>

\* controlPanel 'speedChange'
AppSpeedChange ==
    /\ Requested("appSpeedChange")
    /\ app' = speedChange(app, IF app.controls.speed = "fast" THEN "normal" ELSE "fast")
    /\ hist' = [hist EXCEPT !.kinds = Append(@, "appSpeedChange")]
    /\ UNCHANGED <<engine, pageVars, twin>>

\* controlPanel 'statisticChange'
AppStatisticChange ==
    /\ Requested("appStatisticChange")
    /\ \E stat \in StatisticNames \ {app.engine.statistic} :
          app' = [app EXCEPT !.engine.statistic = stat]
    /\ hist' = [hist EXCEPT !.kinds = Append(@, "appStatisticChange")]
    /\ UNCHANGED <<engine, pageVars, twin>>

\* controlPanel 'thresholdChange'
AppThresholdChange ==
    /\ Requested("appThresholdChange")
    /\ \E th \in PopThresholds \ {app.engine.threshold} :
          app' = [app EXCEPT !.engine.threshold = th]
    /\ hist' = [hist EXCEPT !.kinds = Append(@, "appThresholdChange")]
    /\ UNCHANGED <<engine, pageVars, twin>>

\* mousedown on the canvas, in the population's area: modifyPopulation(e, !e.shiftKey)
AppPointer ==
    /\ Requested("appPointer")
    /\ \E position \in Positions, isAdding \in BOOLEAN :
          /\ app' = [app EXCEPT !.engine =
                        modifyPopulation(@, position, IF isAdding THEN 1 ELSE -1)]
          /\ hist' = [hist EXCEPT !.kinds = Append(@, "appPointer"),
                                  !.before = [engine |-> engine, app |-> app],
                                  !.input = <<position, isAdding>>]
    /\ UNCHANGED <<engine, pageVars, twin>>

\* controlPanel 'distributionChange'
AppDistributionChange ==
    /\ Requested("appDistributionChange")
    /\ \E name \in GeneratorNames :
          app' = [app EXCEPT !.engine = setPopulationGenerator(@, name)]
    /\ hist' = [hist EXCEPT !.kinds = Append(@, "appDistributionChange")]
    /\ UNCHANGED <<engine, pageVars, twin>>

Init ==
    /\ \E seed \in InitSeeds, stat \in InitStatistics, th \in Thresholds :
          engine = Engine(seed, stat, th)
    /\ now = 0
    /\ lastTime = 0
    /\ timers = <<>>
    /\ n \in MinSampleSize .. MaxN
    /\ app = CLTApp
    /\ twin = [engine |-> engine, skew |-> 0]
    /\ hist = NoHistory

Next ==
    \/ Animate
    \/ TimerFire
    \/ DrawSampleClick
    \/ GatherCall
    \/ ClearTrayCall
    \/ ResetClick
    \/ SeedInput
    \/ AppDrawSample
    \/ AppRepeat
    \/ AppTimeout
    \/ AppReset
    \/ AppSeedChange
    \/ AppSpeedChange
    \/ TurboClick
    \/ StatisticSelect
    \/ ThresholdInput
    \/ PointerDown
    \/ DistributionSelect
    \/ AppStatisticChange
    \/ AppThresholdChange
    \/ AppPointer
    \/ AppDistributionChange

Spec == Init /\ [][Next]_vars
(***************************************************************************)
(* Two Engine instances with the same seed, population and controls, given *)
(* the same calls, and ticks with the same timestamps.  Each instance      *)
(* reads performance.now() when it schedules an emission or starts a       *)
(* gather: the first reads the timestamp of the latest tick, the second a  *)
(* clock that differs from it by twin.skew.                                *)
(***************************************************************************)
TwinCall(kind) ==
    /\ Len(hist.kinds) < TwinCalls
    /\ hist' = [hist EXCEPT !.kinds = Append(@, kind)]
    /\ UNCHANGED <<pageVars, app>>

\* engine.startSample(n, dropMs) on both
TwinStartSample ==
    /\ TwinCall("startSample")
    /\ engine' = startSample(engine, n, DropMs, now)
    /\ twin' = [twin EXCEPT !.engine = startSample(@, n, DropMs, now + twin.skew)]

\* engine.calculateWithGather() on both
TwinGather ==
    /\ TwinCall("gather")
    /\ engine' = calculateWithGather(engine, now)
    /\ twin' = [twin EXCEPT !.engine = calculateWithGather(@, now + twin.skew)]

\* engine.clearTray() on both
TwinClear ==
    /\ TwinCall("clear")
    /\ engine' = clearTray(engine)
    /\ twin' = [twin EXCEPT !.engine = clearTray(@)]

\* engine.tick(dt, timestamp) and engine.draw() on both
TwinTick ==
    /\ hasActiveAnimations(engine) \/ hasActiveAnimations(twin.engine)
    /\ now + TimeStep <= MaxTime
    /\ now' = now + TimeStep
    /\ lastTime' = now'
    /\ LET dt == Min2(DtCapMs, now' - lastTime)
       IN  /\ engine' = draw(tick(engine, dt, now'))
           /\ twin' = [twin EXCEPT !.engine = draw(tick(@, dt, now'))]
    /\ UNCHANGED <<timers, n, app, hist>>

InitTwin ==
    /\ \E seed \in InitSeeds, stat \in InitStatistics, th \in Thresholds, skew \in TwinSkews :
          /\ engine = Engine(seed, stat, th)
          /\ twin = [engine |-> Engine(seed, stat, th), skew |-> skew]
    /\ now = 0
    /\ lastTime = 0
    /\ timers = <<>>
    /\ n \in MinSampleSize .. MaxN
    /\ app = CLTApp
    /\ hist = NoHistory

NextTwin ==
    \/ TwinStartSample
    \/ TwinGather
    \/ TwinClear
    \/ TwinTick

SpecTwin == InitTwin /\ [][NextTwin]_vars

(***************************************************************************)
(* The sampler and the population model on their own: an engine of each    *)
(* kind, holding one of Populations and a stream seeded with one of        *)
(* PopSeeds, is given up to PopCalls calls.                                *)
(***************************************************************************)
\* the history after a call of this kind with these arguments
\* the request made last
lastKind == IF hist.kinds = <<>> THEN "none" ELSE hist.kinds[Len(hist.kinds)]

PopHist(kind, input) ==
    [hist EXCEPT !.kinds = Append(@, kind),
                 !.before = [engine |-> engine, app |-> app],
                 !.input = input]

PopCall == Len(hist.kinds) < PopCalls

\* engine.sampleN(n)
PopSampleN ==
    /\ PopCall
    /\ \E s \in {sampleN(n, engine.rng, engine.popCounts)} :
           /\ engine' = [engine EXCEPT !.rng = s.rng]
           /\ hist' = [PopHist("sampleN", <<n>>) EXCEPT !.sample = s.cols, !.outputs = @ + n]
    /\ UNCHANGED <<pageVars, app, twin>>

\* statEngine.drawSample(n)
PopDrawSample ==
    /\ PopCall
    /\ \E d \in {StatEngine_drawSample(app.engine, n)} :
           /\ app' = [app EXCEPT !.engine = d.engine]
           /\ hist' = [PopHist("drawSample", <<n>>) EXCEPT !.sample = d.columns, !.outputs = @ + n]
    /\ UNCHANGED <<engine, pageVars, twin>>

\* the pointer draws on the canvas: engine.clickPopulation(x, y)
PopClick ==
    /\ PopCall
    /\ \E x \in ClickXs, y \in ClickYs :
          /\ engine' = clickPopulation(engine, x, y)
          /\ hist' = PopHist("click", <<x, y>>)
    /\ UNCHANGED <<pageVars, app, twin>>

\* the pointer erases: engine.altClickPopulation(x, y)
PopAltClick ==
    /\ PopCall
    /\ \E x \in ClickXs, y \in ClickYs :
          /\ engine' = altClickPopulation(engine, x, y)
          /\ hist' = PopHist("altClick", <<x, y>>)
    /\ UNCHANGED <<pageVars, app, twin>>

\* statEngine.modifyPopulation(position, +1 or -1)
PopModify ==
    /\ PopCall
    /\ \E position \in Positions, delta \in {1, -1} :
          /\ app' = [app EXCEPT !.engine = modifyPopulation(@, position, delta)]
          /\ hist' = PopHist("modify", <<position, delta>>)
    /\ UNCHANGED <<engine, pageVars, twin>>

\* the names the two generator methods are called with: the four shapes and
\* one that is none of them
ShapeNames == GeneratorNames \cup {"triangle"}

\* engine.applyGenerator(name), which has no throw statement
PopApplyGenerator ==
    /\ PopCall
    /\ \E name \in ShapeNames :
          /\ engine' = [engine EXCEPT !.popCounts = applyGenerator(name), !.needsRedraw = TRUE]
          /\ hist' = [PopHist("applyGenerator", <<name>>) EXCEPT !.result = [threw |-> FALSE]]
    /\ UNCHANGED <<pageVars, app, twin>>

\* 'distributionChange': statEngine.setPopulationGenerator(name)
PopSetGenerator ==
    /\ PopCall
    /\ \E name \in ShapeNames :
          /\ app' = [app EXCEPT !.engine = setPopulationGenerator(@, name)]
          /\ hist' = [PopHist("setPopulationGenerator", <<name>>)
                         EXCEPT !.result = [threw |-> unknownGenerator(name)]]
    /\ UNCHANGED <<engine, pageVars, twin>>

\* engine.popStats
PopStats ==
    /\ PopCall
    /\ SumCols(engine.popCounts) <= MaxTotal
    /\ hist' = [PopHist("popStats", <<>>) EXCEPT !.result = popStats(engine)]
    /\ UNCHANGED <<engine, pageVars, app, twin>>

\* statEngine.getPopulationStats()
PopGetPopulationStats ==
    /\ PopCall
    /\ SumCols(app.engine.populationData) <= MaxTotal
    /\ hist' = [PopHist("getPopulationStats", <<>>) EXCEPT
                   !.result = getPopulationStats(app.engine)]
    /\ UNCHANGED <<engine, pageVars, app, twin>>

\* engine.computeStat(xs), xs the sample engine.sampleN(n) has just returned
PopComputeStat ==
    /\ PopCall
    /\ lastKind = "sampleN"
    /\ hist' = [PopHist("computeStat", <<hist.sample>>) EXCEPT
                   !.result = computeStat(hist.sample, engine.statistic, engine.threshold)]
    /\ UNCHANGED <<engine, pageVars, app, twin>>

\* statEngine.computeStatistic(values), values the sample
\* statEngine.drawSample(n) has just returned
PopComputeStatistic ==
    /\ PopCall
    /\ lastKind = "drawSample"
    /\ hist' = [PopHist("computeStatistic", <<hist.sample>>) EXCEPT
                   !.result = computeStatistic(app.engine, hist.sample)]
    /\ UNCHANGED <<engine, pageVars, app, twin>>

InitPop ==
    /\ \E seed \in PopSeeds, th \in PopThresholds, weights \in Populations :
          /\ engine = [Engine(seed, "proportion", th) EXCEPT !.popCounts = weights]
          /\ app = [CLTApp EXCEPT !.engine.populationData = weights,
                                  !.engine.config.seed = seed,
                                  !.engine.rng = createRNG(seed),
                                  !.engine.statistic = "proportion",
                                  !.engine.threshold = th]
          /\ hist = [NoHistory EXCEPT !.seed = seed]
    /\ now = 0
    /\ lastTime = 0
    /\ timers = <<>>
    /\ n \in MinSampleSize .. MaxN
    /\ twin = [engine |-> engine, skew |-> 0]

NextPop ==
    \/ PopSampleN
    \/ PopDrawSample
    \/ PopClick
    \/ PopAltClick
    \/ PopModify
    \/ PopApplyGenerator
    \/ PopSetGenerator
    \/ PopStats
    \/ PopGetPopulationStats
    \/ PopComputeStat
    \/ PopComputeStatistic

SpecPop == InitPop /\ [][NextPop]_vars

(***************************************************************************)
(* The reset and clear operations of the two engines on their own          *)
(* (SpecClear): each engine, holding one of Populations, is given up to    *)
(* PopCalls calls, draws of a sample and resets or clears.                 *)
(***************************************************************************)
ClearKinds ==
    {"reset", "clearAll", "clearSample", "clearSamplingDistribution", "clearTray",
     "resetExperiment"}

\* statEngine.reset()
ClearReset ==
    /\ PopCall
    /\ app' = [app EXCEPT !.engine = reset(@)]
    /\ hist' = PopHist("reset", <<>>)
    /\ UNCHANGED <<engine, pageVars, twin>>

\* statEngine.clearAll()
ClearAll ==
    /\ PopCall
    /\ app' = [app EXCEPT !.engine = clearAll(@)]
    /\ hist' = PopHist("clearAll", <<>>)
    /\ UNCHANGED <<engine, pageVars, twin>>

\* statEngine.clearSample()
ClearSample ==
    /\ PopCall
    /\ app' = [app EXCEPT !.engine = clearSample(@)]
    /\ hist' = PopHist("clearSample", <<>>)
    /\ UNCHANGED <<engine, pageVars, twin>>

\* statEngine.clearSamplingDistribution()
ClearSamplingDistribution ==
    /\ PopCall
    /\ app' = [app EXCEPT !.engine = clearSamplingDistribution(@)]
    /\ hist' = PopHist("clearSamplingDistribution", <<>>)
    /\ UNCHANGED <<engine, pageVars, twin>>

\* engine.clearTray()
ClearTray ==
    /\ PopCall
    /\ engine' = clearTray(engine)
    /\ hist' = PopHist("clearTray", <<>>)
    /\ UNCHANGED <<pageVars, app, twin>>

\* engine.resetExperiment()
ClearResetExperiment ==
    /\ PopCall
    /\ engine' = resetExperiment(engine)
    /\ hist' = PopHist("resetExperiment", <<>>)
    /\ UNCHANGED <<pageVars, app, twin>>

\* app.drawSample(): a sample in the tray and an observation in the histogram
ClearDraw ==
    /\ PopCall
    /\ app' = CLTApp_drawSample(app, n)
    /\ hist' = PopHist("appDrawSample", <<n>>)
    /\ UNCHANGED <<engine, pageVars, twin>>

\* engine.handleRepeatTurbo(n): observations in the histogram
ClearTurbo ==
    /\ PopCall
    /\ engine' = handleRepeatTurbo(engine, n)
    /\ hist' = PopHist("turbo", <<n>>)
    /\ UNCHANGED <<pageVars, app, twin>>

NextClear ==
    \/ ClearReset
    \/ ClearAll
    \/ ClearSample
    \/ ClearSamplingDistribution
    \/ ClearTray
    \/ ClearResetExperiment
    \/ ClearDraw
    \/ ClearTurbo

SpecClear == InitPop /\ [][NextClear]_vars

(***************************************************************************)
(* The constructor of the modular engine on its own (SpecNew): the app's   *)
(* engine is replaced by a new one, made with or without a seed, which is  *)
(* given a population and asked for a sample.                              *)
(***************************************************************************)
\* new StatEngine(options)
NewStatEngine ==
    /\ hist.kinds = <<>>
    /\ \E opt \in {<<>>} \cup {<<s>> : s \in ConstructorSeeds} :
          /\ app' = [app EXCEPT !.engine = StatEngine(opt)]
          /\ hist' = [PopHist("new", opt) EXCEPT !.seed = app'.engine.config.seed,
                                                 !.outputs = 0]
    /\ UNCHANGED <<engine, pageVars, twin>>

\* statEngine.setPopulationGenerator(name) on the new engine
NewSetGenerator ==
    /\ hist.kinds = <<"new">>
    /\ \E name \in GeneratorNames :
          app' = [app EXCEPT !.engine = setPopulationGenerator(@, name)]
    /\ hist' = [hist EXCEPT !.kinds = Append(@, "setPopulationGenerator")]
    /\ UNCHANGED <<engine, pageVars, twin>>

\* statEngine.drawSample(n) on the new engine
NewDrawSample ==
    /\ hist.kinds = <<"new", "setPopulationGenerator">>
    /\ \E d \in {StatEngine_drawSample(app.engine, n)} :
          /\ app' = [app EXCEPT !.engine = d.engine]
          /\ hist' = [hist EXCEPT !.kinds = Append(@, "drawSample"),
                                  !.sample = d.columns, !.outputs = @ + n]
    /\ UNCHANGED <<engine, pageVars, twin>>

NextNew ==
    \/ NewStatEngine
    \/ NewSetGenerator
    \/ NewDrawSample

SpecNew == InitPop /\ [][NextNew]_vars

(***************************************************************************)
(* Single frames of the animated page: animate(currentTime) with the       *)
(* engine in any state a draw, a gather, clicks on x1000 and the speed     *)
(* select lead to, on a running clock and on one that has not moved.  The  *)
(* history keeps the engine as the frame found it, dt and the timestamp,   *)
(* the flag needsRedraw as tick left it, and every particle as the tick    *)
(* found and left it (the landed ones included).                           *)
(***************************************************************************)
\* the populations: the normal shape, and all the weight in one column
TickPopulations ==
    {applyGenerator("normal"), [c \in ColIdx |-> IF c = 1 THEN 1 ELSE 0]}

TickCount(kind) == Cardinality({i \in 1 .. Len(hist.kinds) : hist.kinds[i] = kind})

\* the particles of a list as the physics of a tick finds and leaves them
movedBy(particles, sp, dt) ==
    [i \in 1 .. Len(particles) |->
        [from |-> particles[i], to |-> moveParticle(particles[i], gOf(sp), dt)]]

\* the speed select: engine.speed = this.value
TickSpeedSelect ==
    /\ hist.kinds = <<>>
    /\ engine' = [engine EXCEPT !.speed = "fast"]
    /\ hist' = [hist EXCEPT !.kinds = Append(@, "speed")]
    /\ UNCHANGED <<pageVars, app, twin>>

\* the draw button on an empty tray
TickDrawSample ==
    /\ TickCount("draw") = 0
    /\ now = 0
    /\ validateSampleSize(n)
    /\ \E r \in {drawSampleWithAutoCalculate(engine, n, DropMs, now)} :
          /\ r.timeouts = <<>>
          /\ engine' = r.engine
          /\ hist' = [hist EXCEPT !.kinds = Append(@, "draw"), !.plans = @ + 1,
                                  !.sample = r.engine.lastSample]
    /\ UNCHANGED <<pageVars, app, twin>>

\* engine.calculateWithGather()
TickGather ==
    /\ TickCount("gather") = 0
    /\ now <= TickRequestBy
    /\ gatherStarts(engine)
    /\ engine' = calculateWithGather(engine, now)
    /\ hist' = [hist EXCEPT !.kinds = Append(@, "gather"), !.gathers = @ + 1]
    /\ UNCHANGED <<pageVars, app, twin>>

\* the x1000 button, while a gather is under way
TickTurbo ==
    /\ TickCount("turbo") < TickTurbos
    /\ engine.gathering
    /\ validateSampleSize(n)
    /\ engine' = handleRepeatTurbo(engine, n)
    /\ hist' = [hist EXCEPT !.kinds = Append(@, "turbo")]
    /\ UNCHANGED <<pageVars, app, twin>>

\* animate(currentTime), currentTime the clock after step ms; kinds is the
\* history's list of requests after it
Frame(step, kinds) ==
    /\ now' = now + step
    /\ lastTime' = now'
    /\ \E dt \in {Min2(DtCapMs, now' - lastTime)} :
       \E e1 \in {tick(engine, dt, now')} :
          /\ engine' = IF e1.needsRedraw \/ hasActiveAnimations(e1) THEN draw(e1) ELSE e1
          /\ hist' = [hist EXCEPT
                !.kinds   = kinds,
                !.spawned = @ + (IF gatherCompletes(engine, now') THEN 1 ELSE 0),
                !.before  = [engine |-> engine, app |-> app],
                !.input   = <<dt, now'>>,
                !.result  =
                    [dirty  |-> e1.needsRedraw,
                     sample |-> movedBy(tickEmission(engine, now').sampleParticles,
                                        engine.speed, dt),
                     stat   |-> movedBy(tickGathering(engine, now').statParticles,
                                        engine.speed, dt)]]
    /\ UNCHANGED <<timers, n, app, twin>>

\* a frame after the clock has moved on
TickFrame ==
    /\ now + TimeStep <= MaxTickTime
    /\ Frame(TimeStep, hist.kinds)

\* a frame with the timestamp of the frame before it
TickStalledFrame ==
    /\ TickCount("stalled") < StalledFrames
    /\ engine.sampleParticles # <<>> \/ engine.statParticles # <<>>
    /\ Frame(0, Append(hist.kinds, "stalled"))

InitTick ==
    /\ \E weights \in TickPopulations :
          engine = [Engine(1234, "mean", <<1, 2>>) EXCEPT !.popCounts = weights]
    /\ now = 0
    /\ lastTime = 0
    /\ timers = <<>>
    /\ n \in MinSampleSize .. MaxN
    /\ app = CLTApp
    /\ twin = [engine |-> engine, skew |-> 0]
    /\ hist = NoHistory

NextTick ==
    \/ TickSpeedSelect
    \/ TickDrawSample
    \/ TickGather
    \/ TickTurbo
    \/ TickFrame
    \/ TickStalledFrame

SpecTick == InitTick /\ [][NextTick]_vars

\* a step in which the clock moves on by a frame: a step of TickFrame, which
\* can be taken whenever the clock is short of its horizon
ClockMoves == now + TimeStep <= MaxTickTime /\ now' = now + TimeStep

\* requestAnimationFrame keeps calling animate, and the clock moves on
SpecTickFair == SpecTick /\ WF_now(ClockMoves)

(***************************************************************************)
(* The x10 button of the animated page (SpecRepeat).  Its click handler is *)
(* an async function: each await of the loop hands a continuation to       *)
(* setTimeout.  timers holds the continuations (entries with a field k,    *)
(* the iterations made so far) next to the delayed startSample calls of    *)
(* drawSampleWithAutoCalculate, in the order in which they come due.       *)
(***************************************************************************)
\* setTimeout(callback, delay): the pending callbacks with t among them, after
\* those that come due no later than t
setTimeout(ts, t) ==
    LET before == SelectSeq(ts, LAMBDA u : u.due <= t.due)
        after  == SelectSeq(ts, LAMBDA u : u.due > t.due)
    IN  before \o <<t>> \o after

\* the pending callback is the continuation of a run of the x10 loop
isLoop(t) == "k" \in DOMAIN t

\* a run of the x10 loop has not come to its end
runInProgress == \E i \in 1 .. Len(timers) : isLoop(timers[i])

\* one iteration of the loop, the k-th, of a run that found prevSpeed and
\* prevGather: drawSampleWithAutoCalculate(n, 600), then the await
repeatIteration(e, ts, k, prevSpeed, prevGather, perfNow) ==
    LET r  == drawSampleWithAutoCalculate(e, n, RepeatDropMs, perfNow)
        t1 == IF r.timeouts = <<>> THEN ts ELSE setTimeout(ts, r.timeouts[1])
    IN  [engine |-> r.engine,
         timers |-> setTimeout(t1, [due |-> perfNow + LoopDelay, k |-> k,
                                    prevSpeed |-> prevSpeed, prevGather |-> prevGather])]

\* the x10 button is clicked: the handler up to its first await
RepeatClick ==
    /\ TickCount("repeat") < RepeatRuns
    /\ now <= RepeatClickBy
    /\ validateSampleSize(n)
    /\ \E r \in {repeatIteration([engine EXCEPT !.speed = "fast",
                                                !.gatherDur = RepeatGatherDur],
                                 timers, 1, engine.speed, engine.gatherDur, now)} :
          /\ engine' = r.engine
          /\ timers' = r.timers
    /\ hist' = [hist EXCEPT !.kinds = Append(@, "repeat")]
    /\ UNCHANGED <<now, lastTime, n, app, twin>>

\* the await of the loop is over: the next iteration, or after the last one
\* engine.speed = prevSpeed; engine.gatherDur = prevGather
RepeatLoop ==
    /\ timers # <<>>
    /\ timers[1].due <= now
    /\ isLoop(timers[1])
    /\ \E t \in {timers[1]} :
          IF t.k < RepeatCount
          THEN \E r \in {repeatIteration(engine, Tail(timers), t.k + 1, t.prevSpeed,
                                         t.prevGather, now)} :
                  /\ engine' = r.engine
                  /\ timers' = r.timers
          ELSE /\ engine' = [engine EXCEPT !.speed = t.prevSpeed,
                                           !.gatherDur = t.prevGather]
               /\ timers' = Tail(timers)
    /\ UNCHANGED <<now, lastTime, n, app, twin, hist>>

\* the delayed startSample of drawSampleWithAutoCalculate fires
RepeatDelayedDraw ==
    /\ timers # <<>>
    /\ timers[1].due <= now
    /\ ~isLoop(timers[1])
    /\ engine' = startSample(engine, timers[1].n, timers[1].dropMs, now)
    /\ timers' = Tail(timers)
    /\ UNCHANGED <<now, lastTime, n, app, twin, hist>>

\* the speed select is changed while a run is in progress
RepeatSpeedSelect ==
    /\ runInProgress
    /\ TickCount("speed") = 0
    /\ \E sp \in {"normal", "fast"} \ {engine.speed} :
          engine' = [engine EXCEPT !.speed = sp]
    /\ hist' = [hist EXCEPT !.kinds = Append(@, "speed")]
    /\ UNCHANGED <<pageVars, app, twin>>

\* a frame of the animate loop, once the callbacks that are due have run
RepeatFrame ==
    /\ \A i \in 1 .. Len(timers) : timers[i].due > now
    /\ now + TimeStep <= MaxRepeatTime
    /\ Frame(TimeStep, hist.kinds)

NextRepeat ==
    \/ RepeatClick
    \/ RepeatLoop
    \/ RepeatDelayedDraw
    \/ RepeatSpeedSelect
    \/ RepeatFrame

SpecRepeat == InitTick /\ [][NextRepeat]_vars

(***************************************************************************)
(* Properties.                                                             *)
(***************************************************************************)
\* the number of elements of the sample s that fall in bin c
CountIn(s, c) == Cardinality({i \in 1 .. Len(s) : s[i] = c})


\* C1  Conservation: after one draw of n on an empty tray, once the animated
\* engine is idle again, and right after a draw of the modular app, the tray's
\* counts sum to n and every bin holds as many values as the sample has in it.
Conservation ==
    /\ (hist.kinds = <<"draw">> /\ isIdle(engine)) =>
          /\ SumCols(engine.midCounts) = n
          /\ Len(hist.sample) = n
          /\ \A c \in ColIdx : engine.midCounts[c] = CountIn(hist.sample, c)
    /\ hist.kinds = <<"appDrawSample">> =>
          /\ SumCols(app.engine.sampleData) = n
          /\ Len(hist.sample) = n
          /\ \A c \in ColIdx : app.engine.sampleData[c] = CountIn(hist.sample, c)

\* a draw on the animated engine has settled with all its n values in the tray
ConservationWitness ==
    /\ hist.kinds = <<"draw">>
    /\ isIdle(engine)
    /\ SumCols(engine.midCounts) = n
    /\ n = MaxN

\* the emission plan's particles not yet released, per column
remainingIn(e, c) ==
    IF e.emissionPlan = <<>> THEN 0
    ELSE LET p == e.emissionPlan[1]
         IN  Cardinality({i \in (p.emitted + 1) .. p.total : p.cols[i] = c})

\* C5  Exactly-once accounting: during an emission with no other request, in
\* every column the landed values, the particles in flight and the particles
\* not yet released add up to the sample's values of that column, n in all.
ExactlyOnce ==
    hist.kinds = <<"draw">> =>
        /\ \A c \in ColIdx :
              engine.midCounts[c] + inflightPerCol(engine.sampleParticles)[c]
                  + remainingIn(engine, c) = CountIn(hist.sample, c)
        /\ SumCols(engine.midCounts) + Len(engine.sampleParticles)
              + (IF engine.emissionPlan = <<>> THEN 0
                 ELSE engine.emissionPlan[1].total - engine.emissionPlan[1].emitted) = n

\* an emission under way: a value landed, a particle in flight, one to release
ExactlyOnceWitness ==
    /\ hist.kinds = <<"draw">>
    /\ SumCols(engine.midCounts) > 0
    /\ engine.sampleParticles # <<>>
    /\ engine.emissionPlan # <<>>
    /\ engine.emissionPlan[1].emitted < engine.emissionPlan[1].total

\* C2  Auto-gather before redraw: the delayed startSample of a draw on a
\* non-empty tray creates the new emission plan only once the gather has run to
\* completion: never while gathering is still true or its target is pending.
GatherBeforeRedraw ==
    [][Len(timers') < Len(timers)
          => (~engine.gathering /\ engine.gatherTarget = <<>>)]_vars

\* C3  Concurrent requests are queued, not merged: no step replaces an active
\* emission plan by another plan, and no step replaces the target or the start
\* of a gather in progress.
QueuedNotMerged ==
    [][/\ (engine.emissionPlan # <<>> /\ engine'.emissionPlan # <<>>)
            => /\ engine'.emissionPlan[1].cols = engine.emissionPlan[1].cols
               /\ engine'.emissionPlan[1].start = engine.emissionPlan[1].start
       /\ (engine.gathering /\ engine'.gathering)
            => /\ engine'.gatherTarget = engine.gatherTarget
               /\ engine'.gatherStart = engine.gatherStart]_vars

\* no clearTray and no reset has been requested in this run
NoCancel == \A i \in 1 .. Len(hist.kinds) : hist.kinds[i] \notin {"clear", "reset"}

\* the page is at rest: the engine is idle and no callback is pending
AtRest == isIdle(engine) /\ timers = <<>>

\* C4  Every gather that started and was not cancelled spawns exactly one
\* statistic particle, which adds 1 to the sampling distribution: each started
\* gather has spawned its particle or is the one in progress, and at rest the
\* sampling distribution's total is the number of gathers started.
OnePerGather ==
    NoCancel =>
        /\ hist.gathers = hist.spawned + (IF engine.gathering THEN 1 ELSE 0)
        /\ AtRest => SumBins(engine.botCounts) = hist.gathers

\* C6  Cancellation: after clearTray or the reset handler, and until the next
\* request, there is no emission plan, no sample particle in flight, no gather
\* particle, gathering is false, the tray is all zero, and the sampling
\* distribution stays as the clear or reset left it.
Cancelled ==
    lastKind \in {"clear", "reset"} =>
        /\ engine.emissionPlan = <<>>
        /\ engine.sampleParticles = <<>>
        /\ engine.gatherParticles = <<>>
        /\ ~engine.gathering
        /\ engine.midCounts = ZeroCols
        /\ engine.botCounts = hist.cleared

\* C7  Reset completeness in the modular app: after CLTApp.reset(), and until
\* the next request, the tray and the sampling distribution are all zero.
ResetComplete ==
    lastKind = "appReset" =>
        /\ app.engine.sampleData = ZeroCols
        /\ app.engine.samplingDistData = ZeroBins

\* C8  Standard deviation of fewer than 2 values: the statistic of a gather over
\* such a sample is the undefined result, and the gather targets no bin.
SdUndefined ==
    (/\ engine.statistic = "sd"
     /\ engine.gathering
     /\ engine.gatherTarget # <<>>
     /\ Len(engine.lastGatheringSample) < 2) =>
        /\ computeStat(engine.lastGatheringSample, "sd", engine.threshold) = NaN
        /\ engine.gatherTarget[1].bin = NoBin

\* C9  Determinism: two engine instances with the same seed, population and
\* controls that were given the same calls and the same ticks, and have both
\* come to rest, hold the same population, tray and sampling distribution.
Determinism ==
    (isIdle(engine) /\ isIdle(twin.engine)) =>
        /\ twin.engine.popCounts = engine.popCounts
        /\ twin.engine.midCounts = engine.midCounts
        /\ twin.engine.botCounts = engine.botCounts

RECURSIVE streamAfter(_, _)
\* the state of a stream after k outputs
streamAfter(t, k) == IF k <= 0 THEN t ELSE streamAfter(rngStep(t), k - 1)

\* the stream of the page the run is on
pageStream == IF hist.kinds # <<>> /\ hist.kinds[1] \in AppKinds THEN app.engine.rng ELSE engine.rng

pagePopulation ==
    IF hist.kinds # <<>> /\ hist.kinds[1] \in AppKinds THEN app.engine.populationData
    ELSE engine.popCounts

\* C10  Reseeding discards the previous stream state: once a seed s has been
\* set, however many values were drawn before, the page's stream is the fresh
\* stream of s advanced by the outputs drawn since, so its next output is that
\* stream's next, and the first sample drawn after it is the fresh stream's.
ReseedDiscards ==
    (\E i \in 1 .. Len(hist.kinds) : hist.kinds[i] \in {"seed", "appSeedChange"}) =>
        LET fresh == streamAfter(ToU32(hist.seed), hist.outputs)
        IN  /\ pageStream = fresh
            /\ rngMix(rngStep(pageStream)) = rngMix(rngStep(fresh))
            /\ (hist.outputs > 0 /\ hist.outputs = Len(hist.sample)) =>
                   hist.sample = sampleN(hist.outputs, ToU32(hist.seed), pagePopulation).cols

\* values were drawn, then the seed was set, then a sample was drawn
ReseedDiscardsWitness ==
    /\ hist.kinds = <<"appDrawSample", "appSeedChange", "appDrawSample">>
    /\ hist.outputs = n
    /\ hist.seed = 7

(***************************************************************************)
(* The sampler and the population model (SpecPop).                         *)
(***************************************************************************)
\* the last call was a draw of a sample
sampled == lastKind \in {"sampleN", "drawSample"}

\* the population and the stream the last draw found
sampledWeights ==
    IF lastKind = "sampleN" THEN hist.before.engine.popCounts
    ELSE hist.before.app.engine.populationData

sampledStream ==
    IF lastKind = "sampleN" THEN hist.before.engine.rng ELSE hist.before.app.engine.rng

\* the i-th output of the stream t, as the integer r * 2^32
Output(t, i) == rngMix(streamAfter(t, i))

\* C11  Inverse-CDF selection: with a total weight above 0, the bin of the i-th
\* element of a sample is the first bin whose cumulative weight is at least
\* r * total, r the i-th output of the stream (a sample is kept as its bins,
\* standing for their midpoints).
InverseCDF ==
    (sampled /\ SumCols(sampledWeights) > 0) =>
        \A i \in 1 .. Len(hist.sample) :
            LET u == Output(sampledStream, i)
                c == hist.sample[i]
            IN  /\ c \in ColIdx
                /\ ScaleLeq(u, SumCols(sampledWeights), SumTo(sampledWeights, c))
                /\ \A d \in 0 .. (c - 1) :
                      ~ScaleLeq(u, SumCols(sampledWeights), SumTo(sampledWeights, d))

\* r = 1/4 on four bins of weight 1: r * total is exactly the first bin's
\* cumulative weight, and the first bin is selected
InverseCDFWitness ==
    /\ hist.kinds = <<"sampleN">>
    /\ hist.before.engine.popCounts = [c \in ColIdx |-> 1]
    /\ Output(hist.before.engine.rng, 1) = <<W16 \div 4, 0>>
    /\ hist.sample[1] = 0

\* C12  One output per element, in order: after any calls, each engine's
\* stream is its seed's stream advanced by n outputs per draw made on it, no
\* more (no other call consumes an output), and the i-th element of a sample is
\* the bin the i-th of these outputs selects, in the weighted and in the uniform
\* branch.
OnePerElement ==
    /\ engine.rng = streamAfter(ToU32(hist.seed), n * CountIn(hist.kinds, "sampleN"))
    /\ app.engine.rng = streamAfter(ToU32(hist.seed), n * CountIn(hist.kinds, "drawSample"))
    /\ sampled =>
          /\ Len(hist.sample) = n
          /\ \A i \in 1 .. n :
                hist.sample[i] =
                    IF SumCols(sampledWeights) = 0
                    THEN ScaleFloor(Output(sampledStream, i), Cols)
                    ELSE FirstReaching(Output(sampledStream, i), sampledWeights,
                                       SumCols(sampledWeights), 0)

\* a second draw of n on the animated engine, from a population with weight
OnePerElementWitness ==
    /\ hist.kinds = <<"sampleN", "sampleN">>
    /\ n = MaxN
    /\ SumCols(engine.popCounts) > 0
    /\ engine.rng = streamAfter(ToU32(hist.seed), 2 * MaxN)

\* C13  Sampling an all-zero population never fails: the draw returns n
\* elements, the i-th in bin floor(r_i * Cols) for the i-th output r_i, a bin of
\* the population.
UniformFallback ==
    (sampled /\ SumCols(sampledWeights) = 0) =>
        /\ Len(hist.sample) = n
        /\ \A i \in 1 .. Len(hist.sample) :
              LET u == Output(sampledStream, i)
                  c == hist.sample[i]
                  \* r * Cols * 2^16, rounded down
                  q == (u[1] * Cols) + ((u[2] * Cols) \div W16)
              IN  /\ c \in ColIdx
                  /\ c * W16 <= q
                  /\ q < (c + 1) * W16

\* a draw from the all-zero population whose first output is 1/4
UniformFallbackWitness ==
    /\ lastKind = "drawSample"
    /\ hist.before.app.engine.populationData = ZeroCols
    /\ Output(hist.before.app.engine.rng, 1) = <<W16 \div 4, 0>>
    /\ hist.sample[1] = Cols \div 4
    /\ Len(hist.sample) = n

\* clamp(floor((v - min) / (max - min) * B), 0, B - 1) for a statistic value v
\* and a domain [0, dom2 / 2]
claimedBin(val, dom2) ==
    IF val.kind = "frac"
    THEN clamp((2 * val.num * StatBins) \div (dom2 * val.den), 0, StatBins - 1)
    ELSE LET ks == {k \in 0 .. StatBins :
                      k * k * dom2 * dom2 * val.den <= 4 * StatBins * StatBins * val.num}
         IN  clamp(CHOOSE k \in ks : \A j \in ks : j <= k, 0, StatBins - 1)

\* the statistic has been the same since the page was loaded
SameStatistic == \A i \in 1 .. Len(hist.kinds) : hist.kinds[i] # "statistic"

\* C14  Bin mapping: the bin a gather targets is the claimed bin of the
\* statistic of the sample it gathers, and the bin a draw of the modular app
\* increments is the claimed bin of its sample's statistic, values on a bin
\* boundary included.
BinMapping ==
    /\ (engine.gathering /\ engine.gatherTarget # <<>> /\ SameStatistic
          /\ computeStat(engine.lastGatheringSample, engine.statistic, engine.threshold) # NaN) =>
          engine.gatherTarget[1].bin =
              claimedBin(computeStat(engine.lastGatheringSample, engine.statistic,
                                     engine.threshold),
                         IF engine.statistic = "sd" THEN 1 ELSE 2)
    /\ hist.kinds = <<"appDrawSample">> =>
          app.engine.samplingDistData =
              [ZeroBins EXCEPT ![claimedBin(computeStatistic(app.engine, hist.sample),
                                            IF app.engine.statistic = "sd" THEN 1 ELSE 2)] = 1]

\* C15  Bin indices are in range: every column of the sample last drawn, of
\* the uncommitted sample, of the emission plan and of a sample particle in
\* flight is a bin of the population, and the bin of a gather's target and of
\* every statistic particle is a bin of the sampling distribution; the three
\* histograms of each engine have exactly their bins.
BinsInRange ==
    /\ \A i \in 1 .. Len(hist.sample) : hist.sample[i] \in ColIdx
    /\ \A i \in 1 .. Len(engine.lastSample) : engine.lastSample[i] \in ColIdx
    /\ \A i \in 1 .. Len(engine.lastGatheringSample) : engine.lastGatheringSample[i] \in ColIdx
    /\ engine.emissionPlan # <<>> =>
          \A i \in 1 .. Len(engine.emissionPlan[1].cols) :
              engine.emissionPlan[1].cols[i] \in ColIdx
    /\ \A i \in 1 .. Len(engine.sampleParticles) : engine.sampleParticles[i].col \in ColIdx
    /\ engine.gatherTarget # <<>> => engine.gatherTarget[1].bin \in BinIdx
    /\ \A i \in 1 .. Len(engine.statParticles) : engine.statParticles[i].bin \in BinIdx
    /\ DOMAIN engine.popCounts = ColIdx
    /\ DOMAIN engine.midCounts = ColIdx
    /\ DOMAIN engine.botCounts = BinIdx
    /\ DOMAIN app.engine.populationData = ColIdx
    /\ DOMAIN app.engine.sampleData = ColIdx
    /\ DOMAIN app.engine.samplingDistData = BinIdx

\* sample particles in flight while a statistic particle falls
BinsInRangeWitness ==
    /\ engine.sampleParticles # <<>>
    /\ engine.statParticles # <<>>
    /\ engine.statParticles[1].bin \in BinIdx
    /\ engine.emissionPlan # <<>>

\* the column under the pointer at x: the column whose box holds x, the first
\* column left of the grid and the last one right of it
columnAt(x) ==
    IF x < gridX0 THEN 0
    ELSE IF x >= gridX0 + gridW THEN Cols - 1
    ELSE CHOOSE c \in ColIdx : gridX0 + (c * BOX) <= x /\ x < gridX0 + ((c + 1) * BOX)

\* the bin that holds the position <<num, den>>: the first bin below 0, the
\* last one from 1 on
binAt(position) ==
    IF position[1] < 0 THEN 0
    ELSE IF position[1] >= position[2] THEN Cols - 1
    ELSE CHOOSE c \in ColIdx : /\ c * position[2] <= position[1] * Cols
                               /\ position[1] * Cols < (c + 1) * position[2]

\* the weights after delta was added to the weight of bin col, kept in 0 .. PopMax
edited(weights, col, delta) ==
    [c \in ColIdx |->
        IF c # col THEN weights[c]
        ELSE IF weights[c] + delta < 0 THEN 0
        ELSE IF weights[c] + delta > PopMax THEN PopMax
        ELSE weights[c] + delta]

\* C16  Population weights stay in 0 .. PopMax: after any calls every weight
\* of both engines is an integer in 0 .. PopMax, and a pointer edit changes the
\* addressed bin only, by one, except that 0 stays 0 on a decrement and PopMax
\* stays PopMax on an increment (a pointer below the population tray edits
\* nothing).
PopulationClamped ==
    /\ \A c \in ColIdx : /\ engine.popCounts[c] \in 0 .. PopMax
                         /\ app.engine.populationData[c] \in 0 .. PopMax
    /\ lastKind \in {"click", "altClick"} =>
          engine.popCounts =
              IF hist.input[2] > marginY + H_TOP THEN hist.before.engine.popCounts
              ELSE edited(hist.before.engine.popCounts, columnAt(hist.input[1]),
                          IF lastKind = "click" THEN 1 ELSE -1)
    /\ lastKind = "modify" =>
          app.engine.populationData =
              edited(hist.before.app.engine.populationData, binAt(hist.input[1]),
                     hist.input[2])
    /\ lastKind \in {"applyGenerator", "setPopulationGenerator"}
          /\ hist.input[1] \in GeneratorNames =>
          LET weights == IF lastKind = "applyGenerator" THEN engine.popCounts
                         ELSE app.engine.populationData
          IN  weights = [c \in ColIdx |-> GeneratorTable[hist.input[1]][Cols][c + 1]]

\* an increment of a bin that is at PopMax, after a decrement of a bin at 0
PopulationClampedWitness ==
    /\ hist.kinds = <<"altClick", "click">>
    /\ hist.before.engine.popCounts[Cols - 1] = PopMax
    /\ columnAt(hist.input[1]) = Cols - 1
    /\ hist.input[2] <= marginY + H_TOP
    /\ engine.popCounts[Cols - 1] = PopMax
    /\ engine.popCounts[0] = 0

\* C17  The sampling distribution only grows: a step in which the count of a
\* bin of the animated engine gets smaller is a click on Reset
\* (resetExperiment), and a step in which the count of a bin of the modular
\* engine gets smaller is a reset or a seed change (both call clearAll); no
\* draw, gather, turbo or bulk repeat, tick, timer, statistic, threshold or
\* distribution change, or population edit makes a count smaller.
CountsOnlyGrow ==
    [][ /\ (\E b \in BinIdx : engine'.botCounts[b] < engine.botCounts[b]) =>
              hist'.kinds = Append(hist.kinds, "reset")
        /\ (\E b \in BinIdx :
               app'.engine.samplingDistData[b] < app.engine.samplingDistData[b]) =>
              \E kind \in {"appReset", "appSeedChange"} :
                  hist'.kinds = Append(hist.kinds, kind) ]_vars

\* the counts of a turbo repeat are all there after a population edit
CountsOnlyGrowWitness ==
    /\ hist.kinds = <<"turbo", "pointer">>
    /\ engine.popCounts # hist.before.engine.popCounts
    /\ engine.botCounts = hist.before.engine.botCounts
    /\ SumBins(engine.botCounts) = TurboIterations

\* a repeat of the modular app that runs in bulk (runBulkSimulation)
repeatsInBulk(a) ==
    /\ ~a.animationState.isRunning
    /\ a.controls.speed = "fast" \/ RepeatCount >= BulkFrom

\* C18  Turbo and bulk repeats touch the sampling distribution only: a click
\* on x1000 adds TurboIterations to the distribution's total and leaves the
\* tray, the last sample, the emission plan, every particle list, the gather,
\* the pending callbacks and the population as they were; a repeat of the
\* modular app that runs in bulk adds its count to the distribution's total
\* and leaves the tray, the current sample, the population and the app's
\* animation as they were.
BulkOnlyAccumulates ==
    [][ /\ hist'.kinds = Append(hist.kinds, "turbo") =>
              /\ SumBins(engine'.botCounts) = SumBins(engine.botCounts) + TurboIterations
              /\ \A f \in {"midCounts", "lastSample", "emissionPlan", "sampleParticles",
                           "statParticles", "gatherParticles", "popFlashes", "gathering",
                           "popCounts"} : engine'[f] = engine[f]
              /\ timers' = timers
        /\ (hist'.kinds = Append(hist.kinds, "appRepeat") /\ repeatsInBulk(app)) =>
              /\ SumBins(app'.engine.samplingDistData)
                    = SumBins(app.engine.samplingDistData) + RepeatCount
              /\ app'.engine.sampleData = app.engine.sampleData
              /\ app'.engine.currentSample = app.engine.currentSample
              /\ app'.engine.populationData = app.engine.populationData
              /\ app'.animationState = app.animationState
              /\ app'.timeouts = app.timeouts ]_vars

\* the elements of the sample xs whose value is greater than th, and not equal to it
greaterThan(xs, th) ==
    {i \in 1 .. Len(xs) : ~(Val2(xs[i]) * th[2] <= 2 * Cols * th[1])}

\* the weight of the bins c .. Cols - 1 whose midpoint is greater than th
RECURSIVE weightGreater(_, _, _)
weightGreater(weights, th, c) ==
    IF c >= Cols THEN 0
    ELSE (IF Val2(c) * th[2] <= 2 * Cols * th[1] THEN 0 ELSE weights[c])
            + weightGreater(weights, th, c + 1)

\* the fraction r is num / den
IsFraction(r, num, den) == r.kind = "frac" /\ r.num * den = num * r.den

\* C19  Proportion is strict: the proportion of a sample is the number of its
\* values greater than the threshold over n, and the proportion of a population
\* of total weight above 0 is the weight of the bins whose midpoint is greater
\* than the threshold over the total; a value or a midpoint equal to the
\* threshold is not counted.
StrictProportion ==
    /\ lastKind = "computeStat" =>
          IsFraction(hist.result,
                     Cardinality(greaterThan(hist.input[1], engine.threshold)),
                     Len(hist.input[1]))
    /\ lastKind = "computeStatistic" =>
          IsFraction(hist.result,
                     Cardinality(greaterThan(hist.input[1], app.engine.threshold)),
                     Len(hist.input[1]))
    /\ (lastKind = "popStats" /\ SumCols(engine.popCounts) > 0) =>
          IsFraction(hist.result.pthr,
                     weightGreater(engine.popCounts, engine.threshold, 0),
                     SumCols(engine.popCounts))
    /\ (lastKind = "getPopulationStats" /\ SumCols(app.engine.populationData) > 0) =>
          IsFraction(hist.result.proportion,
                     weightGreater(app.engine.populationData, app.engine.threshold, 0),
                     SumCols(app.engine.populationData))

\* the proportion of a sample with a value equal to the threshold and one above it
StrictProportionWitness ==
    /\ lastKind = "computeStatistic"
    /\ app.engine.threshold = <<3, 2 * Cols>>
    /\ \E i, j \in 1 .. Len(hist.input[1]) : hist.input[1][i] = 1 /\ hist.input[1][j] > 1
    /\ hist.result.num = Cardinality({i \in 1 .. Len(hist.input[1]) : hist.input[1][i] > 1})
    /\ hist.result.den = Len(hist.input[1])

\* the summary med, mu, sd, pthr is the one of the population weights
IsSummary(weights, medv, mu, sd, pthr) ==
    LET total == SumCols(weights)
    IN  IF total > 0
        THEN \E c \in ColIdx :
                /\ 2 * SumTo(weights, c) >= total
                /\ \A d \in 0 .. (c - 1) : 2 * SumTo(weights, d) < total
                /\ IsFraction(medv, Val2(c), 2 * Cols)
        ELSE /\ IsFraction(mu, 1, 2)
             /\ IsFraction(sd, 0, 1)
             /\ IsFraction(medv, 1, 2)
             /\ IsFraction(pthr, 0, 1)

\* C20  Population median: the median reported of a population of total weight
\* above 0 is the midpoint of the first bin at which the cumulative weight is
\* at least half the total; of a population of total weight 0 the summary is
\* mean 1/2, sd 0, median 1/2, proportion 0.
PopulationMedian ==
    /\ lastKind = "popStats" =>
          IsSummary(engine.popCounts, hist.result.med, hist.result.mu,
                    hist.result.sd, hist.result.pthr)
    /\ lastKind = "getPopulationStats" =>
          IsSummary(app.engine.populationData, hist.result.median, hist.result.mean,
                    hist.result.sd, hist.result.proportion)

\* the summary of a population whose cumulative weight is half the total at bin 1
PopulationMedianWitness ==
    /\ lastKind = "getPopulationStats"
    /\ 2 * SumTo(app.engine.populationData, 1) = SumCols(app.engine.populationData)
    /\ app.engine.populationData[1] > 0
    /\ hist.result.median = Frac(Val2(1), 2 * Cols)

\* floor(f * total) for the plan p at time t, f = clamp((t - start) / (end - start), 0, 1)
releasedBy(p, t) ==
    IF t <= p.start THEN 0
    ELSE IF t >= p.end THEN p.total
    ELSE CHOOSE k \in 0 .. p.total :
            /\ k * (p.end - p.start) <= (t - p.start) * p.total
            /\ (k + 1) * (p.end - p.start) > (t - p.start) * p.total

\* C21  Emission release count: a tick at time t with a plan active leaves the
\* plan's emitted at the larger of what it was and floor(f * total); emitted is
\* never above total and never gets smaller; from f >= 1 on it is total; the
\* plan is removed in the tick in which emitted reaches total and in no tick
\* before; and the tick creates as many sample particles as emitted grew by.
EmissionCount ==
    [][ (now' # now /\ engine.emissionPlan # <<>>) =>
            LET p == engine.emissionPlan[1]
                k == IF releasedBy(p, now') > p.emitted THEN releasedBy(p, now') ELSE p.emitted
            IN  /\ p.emitted < p.total
                /\ k <= p.total
                /\ now' >= p.end => k = p.total
                /\ IF k = p.total THEN engine'.emissionPlan = <<>>
                   ELSE engine'.emissionPlan = <<[p EXCEPT !.emitted = k]>>
                /\ Len(engine'.sampleParticles) + SumCols(engine'.midCounts)
                      = Len(engine.sampleParticles) + SumCols(engine.midCounts)
                           + (k - p.emitted) ]_vars

\* a plan of three values of which one is released and two are still to come
EmissionCountWitness ==
    /\ engine.emissionPlan # <<>>
    /\ engine.emissionPlan[1].total = 3
    /\ engine.emissionPlan[1].emitted = 1
    /\ now > engine.emissionPlan[1].start
    /\ Len(engine.sampleParticles) + SumCols(engine.midCounts) = 1

\* C22  Tray empty at gather completion: after the tick in which a gather
\* completes (gathering ends and its statistic particle is spawned) every count
\* of the sample tray is 0, the values that landed after the gather started
\* included.
TrayEmptyAtCompletion ==
    [][ (now' # now /\ engine.gathering /\ ~engine'.gathering
            /\ hist'.spawned = hist.spawned + 1) =>
            engine'.midCounts = ZeroCols ]_vars

RECURSIVE landedValues(_, _)
\* the values landed in the tray counts, one bin per landed count, over the
\* columns 0 .. c
landedValues(counts, c) ==
    IF c < 0 THEN <<>>
    ELSE landedValues(counts, c - 1) \o [r \in 1 .. counts[c] |-> c]

\* C23  Gather target: the bin a gather targets is the bin of the statistic of
\* all n values of the sample drawn last while that sample is uncommitted,
\* whether or not all of its particles have landed; with no uncommitted sample
\* and values in the tray it is the bin of the statistic of the landed values.
GatherTargetsSample ==
    [][ hist'.gathers = hist.gathers + 1 =>
            LET xs == IF engine.lastSample # <<>> THEN hist.sample
                      ELSE landedValues(engine.midCounts, Cols - 1)
            IN  /\ engine.lastSample # <<>> => Len(hist.sample) = n
                /\ engine'.gathering
                /\ engine'.gatherTarget # <<>>
                /\ engine'.gatherTarget[1].bin =
                      resolveBin(computeStat(xs, engine.statistic, engine.threshold),
                                 engine.statistic) ]_vars

\* a gather that started while particles of its sample were still to land
GatherTargetsSampleWitness ==
    /\ engine.gathering
    /\ hist.gathers = 1
    /\ Len(hist.sample) = 3
    /\ SumCols(engine.midCounts) + Len(engine.gatherParticles) < Len(hist.sample)
    /\ engine.sampleParticles # <<>>
    /\ engine.gatherTarget[1].bin =
          resolveBin(computeStat(hist.sample, engine.statistic, engine.threshold),
                     engine.statistic)

\* the height at which a value at stack level l of the sample tray sits
levelY(e, l) == midBase - (l * e.BOX_MID_Y) - (e.BOX_MID_Y \div 2)

\* C24  No visual overlap: in every state, the sample particles in flight to
\* one column have pairwise distinct targets, and none of them has the target
\* of a level 0 .. midCounts[col] - 1 that a landed value occupies.
NoOverlap ==
    \A i \in 1 .. Len(engine.sampleParticles) :
        LET q == engine.sampleParticles[i]
        IN  /\ \A j \in 1 .. Len(engine.sampleParticles) :
                  (j # i /\ engine.sampleParticles[j].col = q.col) =>
                      engine.sampleParticles[j].targetY # q.targetY
            /\ \A l \in 0 .. (engine.midCounts[q.col] - 1) : q.targetY # levelY(engine, l)

\* the particles the last frame's tick moved, as it found and left them
movedParticles ==
    IF hist.result = <<>> THEN {}
    ELSE {hist.result.sample[i] : i \in 1 .. Len(hist.result.sample)}
            \cup {hist.result.stat[i] : i \in 1 .. Len(hist.result.stat)}

\* C25  Monotone fall: in every tick, with any dt >= 0, every sample and
\* statistic particle has a velocity that is not negative and not smaller than
\* before, and a position after the tick between its position before the tick
\* and its target, both included; its target stays what it was.
MonotoneFall ==
    \A pr \in movedParticles :
        /\ hist.input[1] >= 0
        /\ pr.from.vy >= 0
        /\ pr.to.vy >= pr.from.vy
        /\ pr.to.targetY = pr.from.targetY
        /\ IF pr.from.y <= pr.from.targetY
           THEN pr.from.y <= pr.to.y /\ pr.to.y <= pr.from.targetY
           ELSE pr.from.targetY <= pr.to.y /\ pr.to.y <= pr.from.y

\* a statistic particle spawned above its start (x1000 has filled its bin since
\* the last repaint) is at its target after the tick
MonotoneFallWitness ==
    \E pr \in movedParticles :
        /\ pr.from.targetY < pr.from.y
        /\ pr.to.y = pr.from.targetY
        /\ "bin" \in DOMAIN pr.from

\* C26  Termination: once the requests have been made, with frames that keep
\* coming on a clock that moves on, the engine becomes idle (no emission plan,
\* no sample or statistic particle in flight, no gather, no gather particle, no
\* flash) and stays idle.
Terminates == <>[](isIdle(engine))

\* the engine idle again after a draw, a gather and the landing of the
\* statistic particle
TerminatesWitness ==
    /\ isIdle(engine)
    /\ TickCount("draw") = 1
    /\ TickCount("gather") = 1
    /\ hist.spawned = 1
    /\ SumBins(engine.botCounts) = 1
    /\ now < MaxTickTime

\* the three box heights the last repaint left in the engine
boxes(e) == <<e.BOX_TOP_Y, e.BOX_MID_Y, e.BOX_BOT_Y>>

\* the box heights a repaint of engine e computes
repainted(e) ==
    <<scaledBox(e.popCounts, Cols - 1, H_TOP),
      scaledBox(e.midCounts, Cols - 1, H_MID),
      scaledBox(e.botCounts, StatBins - 1, H_BOT)>>

\* a step of the animate loop: the clock moves, or a frame arrives with the
\* timestamp of the previous one
isFrame == now' # now \/ TickCount("stalled")' # TickCount("stalled")

\* C27: in every frame of the animate loop, a tick that begins or ends with
\* an animation active leaves needsRedraw set, a tick on an idle engine
\* leaves needsRedraw as it was, and draw() repaints exactly when the flag is
\* set after the tick and then clears it, so the frame in which the last
\* particle lands is repainted.
DirtyFlagRepaint ==
    [][isFrame =>
        /\ hasActiveAnimations(engine) \/ hasActiveAnimations(engine')
              => hist'.result.dirty
        /\ isIdle(engine) => hist'.result.dirty = engine.needsRedraw
        /\ hist'.result.dirty
              => ~engine'.needsRedraw /\ boxes(engine') = repainted(engine')
        /\ ~hist'.result.dirty
              => ~engine'.needsRedraw /\ boxes(engine') = boxes(engine)]_vars

\* C27 witness: the frame in which the last statistic particle landed, the
\* flag clear before it, was repainted and left the flag clear
DirtyFlagRepaintWitness ==
    /\ hist.before # <<>>
    /\ hist.before.engine.statParticles # <<>>
    /\ ~hist.before.engine.needsRedraw
    /\ isIdle(engine)
    /\ hist.result.dirty
    /\ ~engine.needsRedraw
    /\ boxes(engine) = repainted(engine)

\* C28  A call of a generator method with a name that is none of the shapes
\* throws and leaves the population as it was.
UnknownShapeRejected ==
    lastKind \in {"applyGenerator", "setPopulationGenerator"}
    /\ hist.input[1] \notin GeneratorNames =>
        /\ hist.result.threw
        /\ engine.popCounts = hist.before.engine.popCounts
        /\ app.engine.populationData = hist.before.app.engine.populationData

\* the velocity a particle gains in a tick of dt ms at the normal speed
normalGain(dt) == (gOf("normal") * dt) \div 200

\* C29  Fast is double: in a tick at speed "fast" every sample and statistic
\* particle gains exactly twice the velocity it gains in a tick of the same dt
\* at the normal speed.
FastIsDouble ==
    \A pr \in movedParticles :
        hist.before.engine.speed = "fast"
            => pr.to.vy - pr.from.vy = 2 * normalGain(hist.input[1])

\* C30  No bin of weight zero: a sample drawn from a population whose total
\* weight is positive holds only bins whose weight is positive.
OnlyWeightedBins ==
    sampled /\ SumCols(sampledWeights) > 0 =>
        \A i \in 1 .. Len(hist.sample) : sampledWeights[hist.sample[i]] > 0

\* a step that changes what the observations of the animated page's histogram
\* are: another statistic, or another threshold of the proportion
statisticChanges(e, f) ==
    \/ f.statistic # e.statistic
    \/ e.statistic = "proportion" /\ f.threshold # e.threshold

\* C31  One statistic per histogram: a step that selects another statistic,
\* or another threshold of the proportion, leaves no observation of the old
\* one in the sampling distribution, on either page.
HistogramOfSelectedStatistic ==
    [][/\ statisticChanges(engine, engine') => SumBins(engine'.botCounts) = 0
       /\ statisticChanges(app.engine, app'.engine)
             => SumBins(app'.engine.samplingDistData) = 0]_vars

\* nothing is left to happen: no callback pending, no animation active
quiescent == timers = <<>> /\ isIdle(engine)

\* C32  A x10 repeat adds one observation per sample: after one click of the
\* button on an idle engine with an empty tray, and no other request, once no
\* callback is pending and the engine is idle again, the sampling
\* distribution holds as many observations as the loop has iterations.
RepeatAddsAll ==
    (hist.kinds = <<"repeat">> /\ quiescent) =>
        SumBins(engine.botCounts) = RepeatCount

\* C33  A x10 repeat restores the speed: whenever no run of the x10 loop is
\* in progress after the first click, engine.speed and engine.gatherDur are
\* what they were before the first run started (the page's initial values,
\* "normal" and 260: the speed select is changed during a run only), runs that
\* overlap and a change of the speed select during a run included.
RepeatRestores ==
    (TickCount("repeat") > 0 /\ ~runInProgress) =>
        /\ engine.speed = "normal"
        /\ engine.gatherDur = GatherDurDefault

\* C34  An animated repeat of the modular app draws count samples: after one
\* repeat at normal speed and no other request, once isRunning is false again,
\* count samples of n have been drawn, the sampling distribution holds count
\* observations and no callback is pending; and a drawSample or repeat
\* request made while isRunning is true changes nothing of the app.
AnimatedRepeatCounts ==
    /\ [](hist.kinds = <<"appRepeat">> /\ ~app.animationState.isRunning =>
            /\ hist.outputs = RepeatCount * n
            /\ SumBins(app.engine.samplingDistData) = RepeatCount
            /\ app.animationState.currentIteration = RepeatCount
            /\ app.timeouts = <<>>)
    /\ [][(/\ app.animationState.isRunning
           /\ \/ hist'.kinds = Append(hist.kinds, "appDrawSample")
              \/ hist'.kinds = Append(hist.kinds, "appRepeat")) => app' = app]_vars

\* an animated repeat has come to its end, with a drawSample and a repeat
\* request made while it ran
AnimatedRepeatCountsWitness ==
    /\ hist.kinds = <<"appRepeat", "appDrawSample", "appRepeat">>
    /\ ~app.animationState.isRunning
    /\ app.timeouts = <<>>
    /\ hist.outputs = RepeatCount * n
    /\ SumBins(app.engine.samplingDistData) = RepeatCount

\* C35  Resets and clears keep the configuration: a reset or clear operation
\* of either engine leaves the population, the statistic, the threshold
\* and the position of the RNG stream of both as they were.
ClearKeepsConfiguration ==
    lastKind \in ClearKinds =>
        /\ engine.popCounts = hist.before.engine.popCounts
        /\ engine.statistic = hist.before.engine.statistic
        /\ engine.threshold = hist.before.engine.threshold
        /\ engine.rng = hist.before.engine.rng
        /\ app.engine.populationData = hist.before.app.engine.populationData
        /\ app.engine.statistic = hist.before.app.engine.statistic
        /\ app.engine.threshold = hist.before.app.engine.threshold
        /\ app.engine.rng = hist.before.app.engine.rng

\* C36  The constructor keeps the seed it is given: after new StatEngine with
\* a seed s, 0 included, config.seed is s and the stream is createRNG(s)
\* advanced by the outputs drawn since; without a seed they are those of 1234.
ConstructorSeed ==
    (hist.kinds # <<>> /\ hist.kinds[1] = "new") =>
        \E s \in {IF hist.input = <<>> THEN 1234 ELSE hist.input[1]} :
            /\ app.engine.config.seed = s
            /\ app.engine.rng = streamAfter(createRNG(s), hist.outputs)

\* a sample drawn from an engine constructed with seed 0
ConstructorSeedWitness ==
    /\ hist.kinds = <<"new", "setPopulationGenerator", "drawSample">>
    /\ hist.input = <<0>>
    /\ app.engine.config.seed = 0
    /\ app.engine.rng = streamAfter(createRNG(0), n)
    /\ app.engine.rng # streamAfter(createRNG(1234), n)

\* C37  Sampler equivalence: on the same population, from the same state of
\* the stream and with the same n, StatEngine.drawSample and Engine.sampleN
\* return the same bins (the values are their midpoints) and leave the stream
\* in the same state, as calls made on the two engines and in any state in
\* which the two engines agree on the population and the stream.
SamplerEquivalence ==
    /\ hist.kinds = <<"drawSample", "sampleN">> =>
          /\ hist.sample = app.engine.currentSample
          /\ engine.rng = app.engine.rng
    /\ (engine.popCounts = app.engine.populationData /\ engine.rng = app.engine.rng) =>
          \E s \in {sampleN(n, engine.rng, engine.popCounts)} :
          \E d \in {StatEngine_drawSample(app.engine, n)} :
              /\ s.cols = d.columns
              /\ s.rng = d.engine.rng

\* the two samplers have drawn the same sample of more than one bin from a
\* population with weights
SamplerEquivalenceWitness ==
    /\ hist.kinds = <<"drawSample", "sampleN">>
    /\ SumCols(engine.popCounts) > 0
    /\ hist.sample = app.engine.currentSample
    /\ Len(hist.sample) = n
    /\ \E i \in 1 .. n : hist.sample[i] # hist.sample[1]

=============================================================================
